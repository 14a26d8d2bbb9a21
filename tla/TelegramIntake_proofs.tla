------------------------ MODULE TelegramIntake_proofs -----------------------
(***************************************************************************)
(* Theorems about the two listeners of Telegram, for any messages, texts,  *)
(* ends of a process and failed calls: the OTC room's (OtcIntake), which   *)
(* dispatches no message twice, and the Tasso channel's (TassoListener),   *)
(* which opens no trade twice from one message.                            *)
(***************************************************************************)
EXTENDS OtcIntake, TassoListener, FiniteSetTheorems, SequenceTheorems, TLAPS

-----------------------------------------------------------------------------
(***************************************************************************)
(* OtcIntake.                                                              *)
(***************************************************************************)

Notes == [message : Messages, edited : BOOLEAN, at : Nat,
          chat : {p.chat : p \in Posts}, text : {p.text : p \in Posts}]

Listeners == [mode : {"bot", "user"}, at : {"down", "poll", "claim", "dispatch", "save"},
              offset : Nat, hand : Seq(Nat)]

IntakeTypes ==
    /\ dayPart \in Nat
    /\ posted \in Seq(Notes)
    /\ savedOffset \in Nat
    /\ keyUntil \in [Messages -> Nat]
    /\ dispatched \in Seq([update : Nat, signal : {ParseSignal(p.text) : p \in Posts}])

(* Nothing is posted in the future, and a message is posted once.           *)
PostedOnce ==
    /\ \A u \in Updates : posted[u].at <= dayPart
    /\ \A u, v \in Updates :
         ~posted[u].edited /\ ~posted[v].edited /\ posted[u].message = posted[v].message
             => u = v

(* A listener has updates in hand just while it works on them, and each of  *)
(* them is one that Telegram may still deliver.                             *)
Ready(n) ==
    /\ n \in Listeners
    /\ n.at \in {"down", "poll", "save"} => n.hand = <<>>
    /\ n.at \in {"claim", "dispatch"} => n.hand # <<>>
    /\ n.at = "save" => n.mode = "bot"
    /\ \A i \in DOMAIN n.hand :
         n.hand[i] \in Updates /\ dayPart < posted[n.hand[i]].at + Retention

(* The key of a message outlives what Telegram may deliver of it unedited.  *)
Remembered(m) ==
    \A u \in Updates :
        posted[u].message = m /\ ~posted[u].edited => keyUntil[m] >= posted[u].at + KeyTtl

Told(m) == \E i \in DOMAIN dispatched : posted[dispatched[i].update].message = m

ToldAreRemembered ==
    \A i \in DOMAIN dispatched :
        /\ dispatched[i].update \in Updates
        /\ Remembered(posted[dispatched[i].update].message)

(* What is about to be dispatched was claimed, and was not dispatched.      *)
ClaimedFirst ==
    listener.at = "dispatch" =>
        LET u == listener.hand[1]
        IN  /\ Remembered(posted[u].message)
            /\ posted[u].edited \/ ~Told(posted[u].message)

IntakeInv ==
    /\ IntakeTypes /\ PostedOnce /\ Ready(listener)
    /\ ToldAreRemembered /\ ClaimedFirst /\ HandledOnce

-----------------------------------------------------------------------------
LEMMA InitIntake == IntakeInit => IntakeInv
<1> SUFFICES ASSUME IntakeInit PROVE IntakeInv
  OBVIOUS
<1>1. posted = <<>> /\ dispatched = <<>> /\ Updates = {} /\ DOMAIN dispatched = {}
  BY DEF IntakeInit, Updates
<1>2. IntakeTypes
  BY <1>1 DEF IntakeInit, IntakeTypes
<1>3. Ready(listener)
  <2>1. PICK mode \in Modes :
           listener = [mode |-> mode, at |-> "down", offset |-> 0, hand |-> <<>>]
    BY DEF IntakeInit, Down
  <2>2. /\ listener.at = "down" /\ listener.hand = <<>> /\ DOMAIN listener.hand = {}
        /\ <<>> \in Seq(Nat) /\ mode \in {"bot", "user"}
    BY <2>1, IntakeAssumption
  <2>3. listener \in Listeners
    BY <2>1, <2>2 DEF Listeners
  <2> QED
    BY <2>2, <2>3 DEF Ready
<1>4. listener.at = "down"
  BY DEF IntakeInit, Down
<1> QED
  BY <1>1, <1>2, <1>3, <1>4
     DEF IntakeInv, PostedOnce, ToldAreRemembered, ClaimedFirst, HandledOnce

(* The listener goes on with the next update.                               *)
LEMMA NextIsReady ==
    ASSUME IntakeInv, listener.hand # <<>>
    PROVE  Ready(NextUpdate(listener.hand[1])) /\ NextUpdate(listener.hand[1]).at # "dispatch"
<1> DEFINE u == listener.hand[1]
           rest == Tail(listener.hand)
           n == NextUpdate(u)
<1>1. /\ listener \in Listeners /\ listener.hand \in Seq(Nat)
      /\ \A i \in DOMAIN listener.hand :
           listener.hand[i] \in Updates /\ dayPart < posted[listener.hand[i]].at + Retention
  BY DEF IntakeInv, Ready, Listeners
<1>2. /\ Len(listener.hand) \in Nat \ {0} /\ DOMAIN listener.hand = 1..Len(listener.hand)
      /\ u \in Nat
  BY <1>1
<1>3. /\ rest \in Seq(Nat) /\ Len(rest) = Len(listener.hand) - 1
      /\ \A i \in DOMAIN rest : i + 1 \in DOMAIN listener.hand /\ rest[i] = listener.hand[i + 1]
  BY <1>1, <1>2
<1>4. /\ n.hand = rest /\ n.mode = listener.mode
      /\ n.offset = IF listener.mode = "bot" /\ u >= listener.offset THEN u + 1
                                                                  ELSE listener.offset
      /\ n.at = IF rest # <<>> THEN "claim"
                ELSE IF listener.mode = "bot" THEN "save" ELSE "poll"
      /\ n = [mode |-> n.mode, at |-> n.at, offset |-> n.offset, hand |-> n.hand]
  <2>1. listener = [mode |-> listener.mode, at |-> listener.at, offset |-> listener.offset,
                    hand |-> listener.hand]
    BY <1>1 DEF Listeners
  <2>2. n = [mode   |-> listener.mode,
             at     |-> IF rest # <<>> THEN "claim"
                        ELSE IF listener.mode = "bot" THEN "save" ELSE "poll",
             offset |-> IF listener.mode = "bot" /\ u >= listener.offset THEN u + 1
                                                                     ELSE listener.offset,
             hand   |-> rest]
    <3> DEFINE off == IF listener.mode = "bot" /\ u >= listener.offset THEN u + 1
                                                                    ELSE listener.offset
               stage == IF rest # <<>> THEN "claim"
                        ELSE IF listener.mode = "bot" THEN "save" ELSE "poll"
    <3>1. n = [listener EXCEPT !.hand = rest, !.offset = off, !.at = stage]
      BY DEF NextUpdate
    <3> HIDE DEF rest, off, stage, n
    <3>2. n = [mode |-> listener.mode, at |-> stage, offset |-> off, hand |-> rest]
      BY <2>1, <3>1
    <3> QED
      BY <3>2 DEF off, stage
  <2> HIDE DEF n
  <2> QED
    BY <2>2
<1>5. n \in Listeners
  <2>1. n.offset \in Nat
    BY <1>1, <1>2, <1>4 DEF Listeners
  <2> HIDE DEF n, u, rest
  <2> QED
    BY <1>1, <1>3, <1>4, <2>1 DEF Listeners
<1>6. \A i \in DOMAIN n.hand :
        n.hand[i] \in Updates /\ dayPart < posted[n.hand[i]].at + Retention
  BY <1>1, <1>3, <1>4
<1> HIDE DEF n, rest
<1>7. Ready(n) /\ n.at # "dispatch"
  BY <1>1, <1>4, <1>5, <1>6 DEF Ready, Listeners
<1> QED
  BY <1>7 DEF n

(* What a step keeps that changes neither the room, the keys nor what was   *)
(* dispatched.                                                              *)
LEMMA QuietKeepsInv ==
    ASSUME IntakeInv, UNCHANGED <<posted, keyUntil, dispatched>>,
           dayPart' \in Nat, dayPart <= dayPart', savedOffset' \in Nat,
           Ready(listener)', listener'.at # "dispatch" \/ listener' = listener
    PROVE  IntakeInv'
<1>1. IntakeTypes' /\ Updates' = Updates
  BY DEF IntakeInv, IntakeTypes, Updates
<1>2. PostedOnce'
  <2>1. \A u \in Updates : posted[u].at \in Nat
    <3>1. ASSUME NEW u \in Updates PROVE posted[u] \in Notes
      BY ElementOfSeq DEF IntakeInv, IntakeTypes, Updates
    <3> QED
      BY <3>1 DEF Notes
  <2> QED
    BY <1>1, <2>1 DEF IntakeInv, PostedOnce, IntakeTypes
<1>3. ToldAreRemembered' /\ HandledOnce' /\ ClaimedFirst'
  BY <1>1 DEF IntakeInv, ToldAreRemembered, HandledOnce, ClaimedFirst, Remembered, Told
<1> QED
  BY <1>1, <1>2, <1>3 DEF IntakeInv

-----------------------------------------------------------------------------
LEMMA PublishKeepsInv ==
    ASSUME IntakeInv, NEW note \in Notes, Publish(note), note.at = dayPart,
           note.edited \/ \A u \in Updates : posted[u].message # note.message
    PROVE  IntakeInv'
<1> DEFINE new == Len(posted) + 1
<1> USE IntakeAssumption
<1>1. /\ Len(posted) \in Nat /\ posted' \in Seq(Notes) /\ Len(posted') = new
      /\ posted'[new] = note /\ \A u \in 1..Len(posted) : posted'[u] = posted[u]
  <2>1. posted \in Seq(Notes) /\ posted' = Append(posted, note)
    BY DEF IntakeInv, IntakeTypes, Publish
  <2> QED
    BY <2>1, AppendProperties
<1>2. Updates = 1..Len(posted) /\ Updates' = Updates \cup {new} /\ new \notin Updates
  BY <1>1 DEF Updates
<1>3. UNCHANGED <<dayPart, savedOffset, keyUntil, dispatched>>
  BY DEF Publish
<1>4. IntakeTypes'
  BY <1>1, <1>3 DEF IntakeInv, IntakeTypes
<1>5. PostedOnce'
  <2>1. dayPart \in Nat /\ PostedOnce
    BY DEF IntakeInv, IntakeTypes
  <2>2. \A u \in Updates : posted'[u] = posted[u]
    BY <1>1, <1>2
  <2>3. \A u \in Updates' : posted'[u].at <= dayPart'
    <3>1. ASSUME NEW u \in Updates PROVE posted'[u].at <= dayPart'
      BY <1>3, <2>1, <2>2, <3>1 DEF PostedOnce
    <3>2. posted'[new].at <= dayPart'
      BY <1>1, <1>3, <2>1
    <3> QED
      BY <1>2, <3>1, <3>2
  <2>4. ASSUME NEW u \in Updates', NEW v \in Updates',
               ~posted'[u].edited, ~posted'[v].edited,
               posted'[u].message = posted'[v].message
        PROVE  u = v
    <3>1. CASE u \in Updates /\ v \in Updates
      <4>1. posted'[u] = posted[u] /\ posted'[v] = posted[v]
        BY <2>2, <3>1
      <4> QED
        BY <2>1, <2>4, <3>1, <4>1 DEF PostedOnce
    <3>2. CASE u = new /\ v \in Updates
      BY <1>1, <2>2, <2>4, <3>2
    <3>3. CASE u \in Updates /\ v = new
      BY <1>1, <2>2, <2>4, <3>3
    <3>4. CASE u = new /\ v = new
      BY <3>4
    <3> QED
      BY <1>2, <3>1, <3>2, <3>3, <3>4
  <2> QED
    BY <2>3, <2>4 DEF PostedOnce
<1>6. /\ Ready(listener)'
      /\ listener'.at = "dispatch" =>
           listener.at = "dispatch" /\ listener'.hand[1] = listener.hand[1]
  <2>1. Ready(listener)
    BY DEF IntakeInv
  <2>2. CASE listener' = listener
    BY <1>1, <1>2, <1>3, <2>1, <2>2 DEF Ready
  <2>3. CASE /\ listener' = [listener EXCEPT !.hand = Append(@, Len(posted')),
                                              !.at = IF @ = "poll" THEN "claim" ELSE @]
             /\ listener.mode = "user" /\ listener.at # "down"
    <3>1. /\ listener.hand \in Seq(Nat) /\ listener \in Listeners /\ new \in Nat
      BY <1>1, <2>1 DEF Ready, Listeners
    <3>2. /\ listener'.hand = Append(listener.hand, new)
          /\ listener'.at = IF listener.at = "poll" THEN "claim" ELSE listener.at
          /\ listener'.mode = "user"
          /\ listener' \in Listeners
      <4>1. Append(listener.hand, new) \in Seq(Nat)
        BY <3>1
      <4> QED
        BY <1>1, <2>3, <3>1, <4>1 DEF Listeners
    <3>3. /\ listener'.hand \in Seq(Nat) /\ Len(listener'.hand) = Len(listener.hand) + 1
          /\ listener'.hand[Len(listener.hand) + 1] = new
          /\ \A i \in 1..Len(listener.hand) : listener'.hand[i] = listener.hand[i]
          /\ Len(listener.hand) \in Nat /\ DOMAIN listener.hand = 1..Len(listener.hand)
          /\ DOMAIN listener'.hand = 1..Len(listener'.hand)
      BY <3>1, <3>2, AppendProperties
    <3>4. dayPart < note.at + Retention
      BY DEF IntakeInv, IntakeTypes
    <3>5. ASSUME NEW i \in DOMAIN listener'.hand
          PROVE  /\ listener'.hand[i] \in Updates'
                 /\ dayPart < posted'[listener'.hand[i]].at + Retention
      <4>1. CASE i = Len(listener.hand) + 1
        BY <1>1, <1>2, <3>3, <3>4, <4>1
      <4>2. CASE i \in DOMAIN listener.hand
        BY <1>1, <1>2, <2>1, <3>3, <4>2 DEF Ready
      <4> QED
        BY <3>3, <3>5, <4>1, <4>2
    <3>6. listener'.hand # <<>>
      BY <3>3
    <3>7. listener.at \notin {"save", "poll", "down"} \/ listener.at = "poll"
      BY <2>1, <2>3 DEF Ready
    <3>8. Ready(listener)'
      BY <1>3, <3>2, <3>5, <3>6, <3>7 DEF Ready, Listeners
    <3>9. listener.at = "dispatch" => listener'.hand[1] = listener.hand[1]
      <4>1. listener.at = "dispatch" => 1 \in 1..Len(listener.hand)
        BY <2>1, <3>1, <3>3 DEF Ready
      <4> QED
        BY <3>3, <4>1
    <3> QED
      BY <3>2, <3>8, <3>9
  <2> QED
    BY <2>2, <2>3 DEF Publish, Connected
<1>7. ASSUME NEW m, Remembered(m), \E u \in Updates : posted[u].message = m
      PROVE  Remembered(m)'
  BY <1>1, <1>2, <1>3, <1>7 DEF Remembered
<1>8. /\ \A i \in DOMAIN dispatched : dispatched[i].update \in Updates
      /\ \A m : Told(m)' <=> Told(m)
  BY <1>1, <1>2, <1>3 DEF IntakeInv, ToldAreRemembered, Told
<1>9. ToldAreRemembered' /\ HandledOnce'
  BY <1>1, <1>2, <1>3, <1>7, <1>8 DEF IntakeInv, ToldAreRemembered, HandledOnce
<1>10. ClaimedFirst'
  <2> SUFFICES ASSUME listener'.at = "dispatch" PROVE ClaimedFirst'
    BY DEF ClaimedFirst
  <2>1. listener.hand[1] \in Updates
    <3>1. listener.hand \in Seq(Nat) /\ listener.hand # <<>>
      BY <1>6 DEF IntakeInv, Ready, Listeners
    <3>2. 1 \in DOMAIN listener.hand
      BY <3>1
    <3> QED
      BY <3>2 DEF IntakeInv, Ready
  <2> QED
    BY <1>1, <1>2, <1>6, <1>7, <1>8, <2>1 DEF IntakeInv, ClaimedFirst
<1> QED
  BY <1>4, <1>5, <1>6, <1>9, <1>10 DEF IntakeInv

LEMMA EditKeepsInv ==
    ASSUME IntakeInv, NEW m \in Messages, Edit(m)
    PROVE  IntakeInv'
<1>1. PICK u \in Updates, p \in Posts :
           /\ posted[u].message = m
           /\ Publish([posted[u] EXCEPT !.edited = TRUE, !.text = p.text, !.at = dayPart])
  BY DEF Edit
<1> DEFINE note == [posted[u] EXCEPT !.edited = TRUE, !.text = p.text, !.at = dayPart]
<1>2. posted[u] \in Notes /\ dayPart \in Nat
  BY ElementOfSeq DEF IntakeInv, IntakeTypes, Updates
<1>3. note \in Notes /\ note.at = dayPart /\ note.edited
  BY <1>2 DEF Notes
<1> HIDE DEF note
<1> QED
  BY <1>1, <1>3, PublishKeepsInv DEF note

LEMMA PostKeepsInv ==
    ASSUME IntakeInv, NEW m \in Messages, Post(m)
    PROVE  IntakeInv'
<1>1. PICK p \in Posts :
           Publish([message |-> m, edited |-> FALSE, chat |-> p.chat, text |-> p.text,
                    at |-> dayPart])
  BY DEF Post
<1> DEFINE note == [message |-> m, edited |-> FALSE, chat |-> p.chat, text |-> p.text,
                    at |-> dayPart]
<1>2. note \in Notes /\ note.at = dayPart /\ note.message = m
  BY DEF Notes, IntakeInv, IntakeTypes
<1>3. \A u \in Updates : posted[u].message # m
  BY DEF Post
<1> HIDE DEF note
<1> QED
  BY <1>1, <1>2, <1>3, PublishKeepsInv DEF note

(* The listener between two messages.                                       *)
LEMMA LoopKeepsInv ==
    ASSUME IntakeInv,
           \/ DayPartPasses \/ ListenerDies \/ FetchUpdates \/ SaveOffset
           \/ \E mode \in Modes : ListenerStarts(mode)
    PROVE  IntakeInv'
<1> USE IntakeAssumption
<1>0. /\ Ready(listener) /\ dayPart \in Nat /\ savedOffset \in Nat
      /\ listener.offset \in Nat /\ <<>> \in Seq(Nat)
      /\ listener = [mode |-> listener.mode, at |-> listener.at,
                     offset |-> listener.offset, hand |-> listener.hand]
      /\ listener.mode \in {"bot", "user"}
  BY DEF IntakeInv, IntakeTypes, Ready, Listeners
<1>1. CASE DayPartPasses
  <2>1. /\ UNCHANGED <<posted, savedOffset, keyUntil, dispatched, listener>>
        /\ dayPart' = dayPart + 1
    BY <1>1 DEF DayPartPasses
  <2>2. listener.hand = <<>> /\ DOMAIN listener.hand = {}
    BY <1>0, <1>1 DEF DayPartPasses, Ready
  <2>3. Ready(listener)'
    BY <1>0, <2>1, <2>2 DEF Ready, Listeners
  <2> QED
    BY <1>0, <2>1, <2>3, QuietKeepsInv
<1>2. ASSUME NEW mode \in {"bot", "user"}, NEW at \in {"down", "poll"}, NEW offset \in Nat,
             listener' = [mode |-> mode, at |-> at, offset |-> offset, hand |-> <<>>],
             UNCHANGED <<dayPart, posted, keyUntil, dispatched>>, savedOffset' \in Nat
      PROVE  IntakeInv'
  <2>1. listener' \in Listeners
    BY <1>0, <1>2 DEF Listeners
  <2>2. listener'.hand = <<>> /\ DOMAIN listener'.hand = {} /\ listener'.at = at
    BY <1>2
  <2>3. Ready(listener)'
    BY <2>1, <2>2 DEF Ready, Listeners
  <2> QED
    BY <1>0, <1>2, <2>2, <2>3, QuietKeepsInv
<1>3. CASE ListenerDies
  BY <1>0, <1>2, <1>3 DEF ListenerDies, Down
<1>4. CASE \E mode \in Modes : ListenerStarts(mode)
  BY <1>0, <1>2, <1>4 DEF ListenerStarts
<1>5. CASE SaveOffset
  <2>1. listener.mode = "bot" /\ listener.hand = <<>> /\ listener.at = "save"
    BY <1>0, <1>5 DEF SaveOffset, Ready
  <2>2. CASE listener' = Down("bot") /\ savedOffset' = savedOffset
    BY <1>0, <1>2, <1>5, <2>2 DEF SaveOffset, Down
  <2>3. CASE listener' = [listener EXCEPT !.at = "poll"] /\ savedOffset' = listener.offset
    <3>1. listener' = [mode |-> "bot", at |-> "poll", offset |-> listener.offset, hand |-> <<>>]
      BY <1>0, <2>1, <2>3
    <3> QED
      BY <1>0, <1>2, <1>5, <2>3, <3>1 DEF SaveOffset
  <2> QED
    BY <1>5, <2>2, <2>3 DEF SaveOffset
<1>6. CASE FetchUpdates
  <2> DEFINE S == Pending(listener.offset)
  <2>1. PICK batch \in Ascending(S) :
             listener' = [listener EXCEPT !.at = IF batch = <<>> THEN "poll" ELSE "claim",
                                          !.hand = batch]
    BY <1>6 DEF FetchUpdates
  <2>2. /\ UNCHANGED <<dayPart, posted, savedOffset, keyUntil, dispatched>>
        /\ listener.mode = "bot"
    BY <1>6 DEF FetchUpdates
  <2>3. /\ Len(posted) \in Nat /\ S \subseteq 1..Len(posted)
        /\ \A u \in S : u \in Updates /\ dayPart < posted[u].at + Retention
    BY DEF Pending, Updates, Kept, IntakeInv, IntakeTypes
  <2>4. Cardinality(S) \in Nat
    <3> HIDE DEF S
    <3>1. IsFiniteSet(1..Len(posted))
      BY <2>3, FS_Interval
    <3>2. IsFiniteSet(S)
      BY <2>3, <3>1, FS_Subset
    <3> QED
      BY <3>2, FS_CardinalityType
  <2>5. batch \in [1..Cardinality(S) -> S]
    BY <2>1 DEF Ascending
  <2>6. batch \in Seq(Nat) /\ \A i \in DOMAIN batch : batch[i] \in S
    <3> HIDE DEF S
    <3> DEFINE n == Cardinality(S)
    <3>1. n \in Nat /\ batch \in [1..n -> S]
      BY <2>4, <2>5
    <3>2. S \subseteq Nat
      BY <2>3
    <3> HIDE DEF n
    <3>3. \A i \in 1..n : batch[i] \in S /\ batch[i] \in Nat
      BY <3>1, <3>2
    <3>4. batch \in [1..n -> Nat] /\ DOMAIN batch = 1..n
      BY <3>1, <3>3
    <3>5. batch \in Seq(Nat)
      BY <3>1, <3>4
    <3> QED
      BY <3>3, <3>4, <3>5
  <2>7. listener' = [mode |-> "bot", at |-> IF batch = <<>> THEN "poll" ELSE "claim",
                     offset |-> listener.offset, hand |-> batch]
    <3> HIDE DEF S
    <3> QED
      BY <1>0, <2>1, <2>2
  <2>8. Ready(listener)' /\ listener'.at # "dispatch"
    <3> HIDE DEF S
    <3>1. listener' \in Listeners
      BY <1>0, <2>6, <2>7 DEF Listeners
    <3>2. /\ listener'.hand = batch /\ listener'.mode = "bot"
          /\ listener'.at = IF batch = <<>> THEN "poll" ELSE "claim"
      BY <2>7
    <3>3. Updates' = Updates
      BY <2>2 DEF Updates
    <3> QED
      BY <2>2, <2>3, <2>6, <3>1, <3>2, <3>3 DEF Ready
  <2> QED
    BY <1>0, <2>2, <2>8, QuietKeepsInv
<1> QED
  BY <1>1, <1>3, <1>4, <1>5, <1>6

LEMMA FirstInHand ==
    ASSUME IntakeInv, listener.at \in {"claim", "dispatch"}
    PROVE  /\ listener.hand # <<>> /\ listener.hand[1] \in Updates
           /\ dayPart < posted[listener.hand[1]].at + Retention
           /\ \A u \in Updates : posted[u] \in Notes
<1>1. Ready(listener) /\ listener.hand # <<>> /\ listener.hand \in Seq(Nat)
  BY DEF IntakeInv, Ready, Listeners
<1>2. 1 \in DOMAIN listener.hand
  BY <1>1
<1>3. \A u \in Updates : posted[u] \in Notes
  BY ElementOfSeq DEF IntakeInv, IntakeTypes, Updates
<1> QED
  BY <1>1, <1>2, <1>3 DEF Ready

LEMMA ClaimKeepsInv ==
    ASSUME IntakeInv, ClaimMessage
    PROVE  IntakeInv'
<1> USE IntakeAssumption
<1> DEFINE u == listener.hand[1]
           m == posted[u].message
<1>1. /\ listener.at = "claim"
      /\ UNCHANGED <<dayPart, posted, savedOffset, dispatched>> /\ Updates' = Updates
  BY DEF ClaimMessage, Updates
<1>2. /\ u \in Updates /\ listener.hand # <<>> /\ dayPart < posted[u].at + Retention
      /\ \A v \in Updates : posted[v] \in Notes
  BY <1>1, FirstInHand
<1>3. /\ m \in Messages /\ dayPart \in Nat
      /\ \A v \in Updates : posted[v].at \in Nat /\ posted[v].at <= dayPart
      /\ \A k \in Messages : keyUntil[k] \in Nat
      /\ keyUntil \in [Messages -> Nat]
  BY <1>2 DEF Notes, IntakeInv, IntakeTypes, PostedOnce
<1>4. /\ \/ listener' = NextUpdate(u)
         \/ /\ listener' = [listener EXCEPT !.at = "dispatch"]
            /\ dayPart >= keyUntil[m] /\ keyUntil' = [keyUntil EXCEPT ![m] = KeyExpiry]
      /\ keyUntil' = keyUntil \/ keyUntil' = [keyUntil EXCEPT ![m] = KeyExpiry]
  BY DEF ClaimMessage
<1>5. keyUntil' \in [Messages -> Nat]
  BY <1>3, <1>4 DEF KeyExpiry
<1>6. ASSUME NEW k, Remembered(k) \/ (k = m /\ keyUntil' = [keyUntil EXCEPT ![m] = KeyExpiry])
      PROVE  Remembered(k)'
  <2> SUFFICES ASSUME NEW v \in Updates, posted[v].message = k, ~posted[v].edited
               PROVE  keyUntil'[k] >= posted[v].at + KeyTtl
    BY <1>1 DEF Remembered
  <2>1. k \in Messages
    BY <1>2 DEF Notes
  <2>2. CASE keyUntil'[k] = keyUntil[k] /\ Remembered(k)
    BY <2>2 DEF Remembered
  <2>3. CASE k = m /\ keyUntil'[m] = dayPart + KeyTtl
    BY <1>3, <2>3
  <2> HIDE DEF m, u
  <2> QED
    BY <1>3, <1>4, <1>6, <2>1, <2>2, <2>3 DEF KeyExpiry
<1>7. ToldAreRemembered' /\ HandledOnce' /\ PostedOnce' /\ IntakeTypes'
  BY <1>1, <1>5, <1>6
     DEF IntakeInv, ToldAreRemembered, HandledOnce, PostedOnce, IntakeTypes
<1>8. CASE listener' = NextUpdate(u)
  <2>1. Ready(listener)' /\ listener'.at # "dispatch"
    BY <1>1, <1>2, <1>8, NextIsReady DEF Ready
  <2> QED
    BY <1>7, <2>1 DEF IntakeInv, ClaimedFirst
<1>9. CASE /\ listener' = [listener EXCEPT !.at = "dispatch"]
           /\ dayPart >= keyUntil[m] /\ keyUntil' = [keyUntil EXCEPT ![m] = KeyExpiry]
  <2>1. listener \in Listeners /\ Ready(listener)
    BY DEF IntakeInv, Ready
  <2>2. listener'.at = "dispatch" /\ listener'.hand = listener.hand /\ listener' \in Listeners
    BY <1>9, <2>1 DEF Listeners
  <2>3. Ready(listener)'
    BY <1>1, <1>2, <2>1, <2>2 DEF Ready
  <2>4. Remembered(m)'
    <3>1. m' = m
      BY <1>1, <2>2
    <3>2. \A k : k = m => Remembered(k)'
      BY <1>6, <1>9
    <3> HIDE DEF m
    <3> QED
      BY <3>1, <3>2 DEF Remembered
  <2>5. ASSUME ~posted[u].edited, Told(m) PROVE FALSE
    <3>1. Remembered(m)
      BY <2>5 DEF Told, IntakeInv, ToldAreRemembered
    <3>2. keyUntil[m] >= posted[u].at + KeyTtl
      BY <1>2, <2>5, <3>1 DEF Remembered
    <3> HIDE DEF m
    <3> QED
      BY <1>2, <1>3, <1>9, <3>2
  <2>6. ClaimedFirst'
    BY <1>1, <2>2, <2>4, <2>5 DEF ClaimedFirst, Told
  <2> QED
    BY <1>7, <2>3, <2>6 DEF IntakeInv
<1> QED
  BY <1>4, <1>8, <1>9

LEMMA DispatchKeepsInv ==
    ASSUME IntakeInv, DispatchMessage
    PROVE  IntakeInv'
<1> DEFINE u == listener.hand[1]
           m == posted[u].message
           last == Len(dispatched) + 1
<1>1. /\ listener.at = "dispatch" /\ listener' = NextUpdate(u)
      /\ UNCHANGED <<dayPart, posted, savedOffset, keyUntil>> /\ Updates' = Updates
      /\ dispatched' = dispatched \/ dispatched' = Append(dispatched, Dispatched(u))
  BY DEF DispatchMessage, Updates
<1>2. /\ u \in Updates /\ listener.hand # <<>>
      /\ \A v \in Updates : posted[v] \in Notes
  BY <1>1, FirstInHand
<1>3. Ready(listener)' /\ listener'.at # "dispatch"
  BY <1>1, <1>2, NextIsReady DEF Ready
<1>4. Remembered(m) /\ (posted[u].edited \/ ~Told(m)) /\ PostedOnce' /\ ClaimedFirst'
  BY <1>1, <1>3 DEF IntakeInv, ClaimedFirst, PostedOnce
<1>5. CASE dispatched' = dispatched
  BY <1>1, <1>3, <1>5, QuietKeepsInv DEF IntakeInv, IntakeTypes
<1>6. CASE dispatched' = Append(dispatched, Dispatched(u))
  <2> DEFINE Sent == [update : Nat, signal : {ParseSignal(p.text) : p \in Posts}]
  <2>1. Dispatched(u) \in Sent /\ Dispatched(u).update = u
    <3>1. PICK p \in Posts : posted[u].text = p.text
      BY <1>2 DEF Notes
    <3> QED
      BY <1>2, <3>1 DEF Dispatched, Updates
  <2>2. /\ dispatched' \in Seq(Sent) /\ Len(dispatched') = last /\ Len(dispatched) \in Nat
        /\ DOMAIN dispatched = 1..Len(dispatched) /\ DOMAIN dispatched' = 1..last
        /\ dispatched'[last] = Dispatched(u)
        /\ \A i \in DOMAIN dispatched : dispatched'[i] = dispatched[i]
    <3>1. dispatched \in Seq(Sent)
      BY DEF IntakeInv, IntakeTypes
    <3> HIDE DEF Sent
    <3> QED
      BY <1>6, <2>1, <3>1, AppendProperties
  <2>3. IntakeTypes'
    BY <1>1, <2>2 DEF IntakeInv, IntakeTypes
  <2>4. \A k : Remembered(k)' <=> Remembered(k)
    BY <1>1 DEF Remembered
  <2>5. ToldAreRemembered'
    <3> SUFFICES ASSUME NEW i \in DOMAIN dispatched'
                 PROVE  /\ dispatched'[i].update \in Updates
                        /\ Remembered(posted[dispatched'[i].update].message)
      BY <1>1, <2>4 DEF ToldAreRemembered
    <3>1. CASE i = last
      BY <1>2, <1>4, <2>1, <2>2, <3>1
    <3>2. CASE i \in DOMAIN dispatched
      BY <2>2, <3>2 DEF IntakeInv, ToldAreRemembered
    <3> QED
      BY <2>2, <3>1, <3>2
  <2>6. HandledOnce'
    <3> SUFFICES ASSUME NEW i \in DOMAIN dispatched', NEW j \in DOMAIN dispatched', i < j,
                        posted[dispatched'[i].update].message
                          = posted[dispatched'[j].update].message
                 PROVE  posted[dispatched'[j].update].edited
      BY <1>1 DEF HandledOnce
    <3>1. i \in DOMAIN dispatched
      BY <2>2
    <3>2. CASE j = last
      BY <1>4, <2>1, <2>2, <3>1, <3>2 DEF Told
    <3>3. CASE j \in DOMAIN dispatched
      BY <2>2, <3>1, <3>3 DEF IntakeInv, HandledOnce
    <3> QED
      BY <2>2, <3>2, <3>3
  <2> QED
    BY <1>3, <1>4, <2>3, <2>5, <2>6 DEF IntakeInv
<1> QED
  BY <1>1, <1>5, <1>6

LEMMA NextKeepsIntake == IntakeInv /\ [IntakeNext]_intakeVars => IntakeInv'
<1> SUFFICES ASSUME IntakeInv, [IntakeNext]_intakeVars PROVE IntakeInv'
  OBVIOUS
<1>1. CASE \E m \in Messages : Post(m) \/ Edit(m)
  BY <1>1, PostKeepsInv, EditKeepsInv
<1>2. CASE \/ DayPartPasses \/ ListenerDies \/ FetchUpdates \/ SaveOffset
           \/ \E mode \in Modes : ListenerStarts(mode)
  BY <1>2, LoopKeepsInv
<1>3. CASE ClaimMessage \/ DispatchMessage
  BY <1>3, ClaimKeepsInv, DispatchKeepsInv
<1>4. CASE UNCHANGED intakeVars
  <2>1. UNCHANGED <<dayPart, posted, savedOffset, keyUntil, dispatched, listener>>
    BY <1>4 DEF intakeVars
  <2>2. Ready(listener)' /\ dayPart \in Nat /\ savedOffset \in Nat
    BY <2>1 DEF IntakeInv, IntakeTypes, Ready, Updates
  <2> QED
    BY <2>1, <2>2, QuietKeepsInv
<1> QED
  BY <1>1, <1>2, <1>3, <1>4 DEF IntakeNext, ListenerWorks, IntakeQuiet

(* No message is dispatched twice unless it was edited in between, however  *)
(* often its update is delivered again: the key of telegram_dedup.py        *)
(* outlives what Telegram keeps.                                            *)
THEOREM DispatchedOnce == IntakeSpec => []HandledOnce
<1>1. IntakeInv => HandledOnce
  BY DEF IntakeInv
<1> QED
  BY <1>1, InitIntake, NextKeepsIntake, PTL DEF IntakeSpec

-----------------------------------------------------------------------------
(***************************************************************************)
(* TassoListener.                                                          *)
(***************************************************************************)

BotMessages == [kind : {"teaser", "prompt", "detail", "update", "stop"}, trade : Trades]

Signals == [message : Nat, profile : {"tasso_long", "tasso_curto"}, to : Callees]

TassoTypes ==
    /\ sent \in Seq(BotMessages)
    /\ received \in Nat /\ received <= Len(sent)
    /\ talk.heard \in Seq(Nat)
    /\ handed \in Seq(Signals)

(* What is handed on was received, and to whom is for its text to say.      *)
HandedWereReceived ==
    \A k \in DOMAIN handed :
        /\ handed[k].message \in 1..received
        /\ handed[k].to = TassoSignal(handed[k].message).to

(* What a conversation heard was received, and is not a trade opened.       *)
HeardIsNew ==
    \A x \in DOMAIN talk.heard :
        /\ talk.heard[x] \in 1..received
        /\ \A k \in DOMAIN handed :
             handed[k].to = "executor" => handed[k].message # talk.heard[x]

TassoInv == TassoTypes /\ HandedWereReceived /\ HeardIsNew /\ OpenedOnce

-----------------------------------------------------------------------------
LEMMA MessageType ==
    ASSUME TassoTypes, NEW i \in 1..Len(sent)
    PROVE  sent[i] \in BotMessages
BY ElementOfSeq DEF TassoTypes

(* Complete details report no stop.                                         *)
LEMMA DetailsAreNoStop ==
    ASSUME NEW m \in BotMessages, IsFullDetail(m)
    PROVE  "stop hit" \notin TextOf(m)
<1>1. m.kind \in {"teaser", "prompt", "detail", "update", "stop"}
  BY DEF BotMessages
<1>2. CASE m.kind \in {"teaser", "prompt", "stop"}
  <2>1. "symbol" \notin TextOf(m)
    BY <1>2 DEF TextOf
  <2> QED
    BY <2>1 DEF IsFullDetail
<1>3. CASE m.kind \in {"detail", "update"}
  BY <1>3 DEF TextOf
<1> QED
  BY <1>1, <1>2, <1>3

(* A conversation never closes; the handler never opens.                    *)
LEMMA CalleeOfDetails ==
    ASSUME TassoTypes, NEW i \in 1..Len(sent), IsFullDetail(sent[i])
    PROVE  TassoSignal(i).to \in {"executor", "updater"}
<1>1. "stop hit" \notin TextOf(sent[i])
  BY MessageType, DetailsAreNoStop
<1>2. Classify(sent[i]) # "close_stop_hit"
  BY <1>1 DEF Classify
<1> QED
  BY <1>2 DEF TassoSignal

LEMMA CalleeOfPassive ==
    ASSUME TassoTypes, NEW i \in 1..Len(sent),
           Classify(sent[i]) \in {"close_stop_hit", "parse_detail"}
    PROVE  TassoSignal(i).to \in {"closer", "updater"}
<1>1. Classify(sent[i]) = "parse_detail" => IsUpdate(sent[i])
  BY DEF Classify
<1> QED
  BY <1>1 DEF TassoSignal

LEMMA SignalType ==
    ASSUME NEW i \in Nat
    PROVE  TassoSignal(i) \in Signals /\ TassoSignal(i).message = i
<1>1. ProfileOf(sent[i]) \in {"tasso_long", "tasso_curto"}
  BY DEF ProfileOf
<1> QED
  BY <1>1 DEF TassoSignal, Signals, Callees

-----------------------------------------------------------------------------
LEMMA InitTasso == TassoInit => TassoInv
<1> SUFFICES ASSUME TassoInit PROVE TassoInv
  OBVIOUS
<1>1. /\ sent = <<>> /\ received = 0 /\ handed = <<>> /\ talk.heard = <<>>
      /\ Len(sent) = 0 /\ DOMAIN handed = {} /\ DOMAIN talk.heard = {}
  BY DEF TassoInit, Silence
<1> QED
  BY <1>1 DEF TassoInv, TassoTypes, HandedWereReceived, HeardIsNew, OpenedOnce

(* Nothing is handed on: what was received, sent and heard may grow.        *)
LEMMA CalmKeepsInv ==
    ASSUME TassoInv, UNCHANGED <<keyboard, handed>>,
           sent' \in Seq(BotMessages), \A i \in 1..Len(sent) : sent'[i] = sent[i],
           received' \in Nat, received <= received', received' <= Len(sent'),
           talk'.heard \in Seq(Nat),
           \A x \in DOMAIN talk'.heard :
               \/ talk'.heard[x] \in received + 1 .. received'
               \/ \E y \in DOMAIN talk.heard : talk'.heard[x] = talk.heard[y]
    PROVE  TassoInv'
<1>1. TassoTypes'
  BY DEF TassoInv, TassoTypes
<1>2. received \in Nat /\ Len(sent) \in Nat /\ received <= Len(sent)
  BY DEF TassoInv, TassoTypes
<1>3. ASSUME NEW i \in 1..received PROVE TassoSignal(i)' = TassoSignal(i)
  <2>1. sent'[i] = sent[i]
    BY <1>2
  <2> QED
    BY <2>1 DEF TassoSignal, Classify, IsTeaser, IsFullDetail, IsUpdate, HasButton, RowsOf,
       TextOf, ProfileOf
<1>4. HandedWereReceived'
  <2> SUFFICES ASSUME NEW k \in DOMAIN handed
               PROVE  /\ handed[k].message \in 1..received'
                      /\ handed[k].to = TassoSignal(handed[k].message).to'
    BY DEF HandedWereReceived
  <2>1. handed[k].message \in 1..received /\ handed[k].to = TassoSignal(handed[k].message).to
    BY DEF TassoInv, HandedWereReceived
  <2>2. TassoSignal(handed[k].message)' = TassoSignal(handed[k].message)
    BY <1>3, <2>1
  <2> QED
    BY <1>2, <2>1, <2>2
<1>5. HeardIsNew'
  <2> SUFFICES ASSUME NEW x \in DOMAIN talk'.heard
               PROVE  /\ talk'.heard[x] \in 1..received'
                      /\ \A k \in DOMAIN handed :
                           handed[k].to = "executor" => handed[k].message # talk'.heard[x]
    BY DEF HeardIsNew
  <2>1. CASE talk'.heard[x] \in received + 1 .. received'
    BY <1>2, <2>1 DEF TassoInv, HandedWereReceived
  <2>2. CASE \E y \in DOMAIN talk.heard : talk'.heard[x] = talk.heard[y]
    BY <1>2, <2>2 DEF TassoInv, HeardIsNew
  <2> QED
    BY <2>1, <2>2
<1>6. OpenedOnce'
  BY DEF TassoInv, OpenedOnce
<1> QED
  BY <1>1, <1>4, <1>5, <1>6 DEF TassoInv

(* Something is handed on that no earlier signal but an update came from.   *)
LEMMA HandKeepsInv ==
    ASSUME TassoInv, NEW i \in 1..received', handed' = Append(handed, TassoSignal(i)),
           UNCHANGED <<keyboard, sent>>, received' \in Nat, received <= received',
           received' <= Len(sent),
           talk'.heard \in Seq(Nat),
           \A x \in DOMAIN talk'.heard :
               \/ talk'.heard[x] \in received + 1 .. received'
               \/ \E y \in DOMAIN talk.heard : talk'.heard[x] = talk.heard[y],
           \/ TassoSignal(i).to = "updater"
           \/ TassoSignal(i).to = "closer" /\ i > received
           \/ /\ TassoSignal(i).to = "executor" /\ DOMAIN talk'.heard = {}
              /\ \E x \in DOMAIN talk.heard : talk.heard[x] = i
    PROVE  TassoInv'
<1>1. received \in Nat /\ Len(sent) \in Nat /\ i \in Nat
  BY DEF TassoInv, TassoTypes
<1>2. TassoSignal(i) \in Signals /\ TassoSignal(i).message = i
  BY <1>1, SignalType
<1>3. /\ handed' \in Seq(Signals) /\ Len(handed) \in Nat /\ DOMAIN handed = 1..Len(handed)
      /\ DOMAIN handed' = 1..Len(handed) + 1 /\ handed'[Len(handed) + 1] = TassoSignal(i)
      /\ \A k \in DOMAIN handed : handed'[k] = handed[k]
  <2>1. handed \in Seq(Signals)
    BY DEF TassoInv, TassoTypes
  <2> QED
    BY <1>2, <2>1, AppendProperties
<1>4. TassoTypes'
  BY <1>3 DEF TassoInv, TassoTypes
<1>5. ASSUME NEW k PROVE TassoSignal(k)' = TassoSignal(k)
  <2>1. sent'[k] = sent[k]
    OBVIOUS
  <2> QED
    BY <2>1 DEF TassoSignal, Classify, IsTeaser, IsFullDetail, IsUpdate, HasButton, RowsOf,
       TextOf, ProfileOf
<1>6. \A k \in DOMAIN handed' : k = Len(handed) + 1 \/ k \in DOMAIN handed
  BY <1>3
<1>7. \A k \in DOMAIN handed :
        handed[k].message \in 1..received /\ handed[k].to = TassoSignal(handed[k].message).to
  BY DEF TassoInv, HandedWereReceived
<1>8. HandedWereReceived'
  <2> SUFFICES ASSUME NEW k \in DOMAIN handed'
               PROVE  /\ handed'[k].message \in 1..received'
                      /\ handed'[k].to = TassoSignal(handed'[k].message).to
    BY <1>5 DEF HandedWereReceived
  <2> QED
    BY <1>1, <1>2, <1>3, <1>6, <1>7
<1>9. HeardIsNew'
  <2> SUFFICES ASSUME NEW x \in DOMAIN talk'.heard
               PROVE  /\ talk'.heard[x] \in 1..received'
                      /\ \A k \in DOMAIN handed' :
                           handed'[k].to = "executor" => handed'[k].message # talk'.heard[x]
    BY DEF HeardIsNew
  <2>1. TassoSignal(i).to # "executor"
    OBVIOUS
  <2>2. ASSUME NEW k \in DOMAIN handed', handed'[k].to = "executor"
        PROVE  k \in DOMAIN handed /\ handed'[k] = handed[k]
    BY <1>3, <1>6, <2>1, <2>2
  <2>3. CASE talk'.heard[x] \in received + 1 .. received'
    <3>1. talk'.heard[x] \in 1..received' /\ talk'.heard[x] \notin 1..received
      BY <1>1, <2>3
    <3> QED
      BY <1>7, <2>2, <3>1
  <2>4. CASE \E y \in DOMAIN talk.heard : talk'.heard[x] = talk.heard[y]
    <3>1. PICK y \in DOMAIN talk.heard : talk'.heard[x] = talk.heard[y]
      BY <2>4
    <3>2. /\ talk.heard[y] \in 1..received
          /\ \A k \in DOMAIN handed :
                handed[k].to = "executor" => handed[k].message # talk.heard[y]
      BY DEF TassoInv, HeardIsNew
    <3>3. talk'.heard[x] \in 1..received'
      BY <1>1, <3>1, <3>2
    <3> QED
      BY <2>2, <3>1, <3>2, <3>3
  <2> QED
    BY <2>3, <2>4
<1>10. ASSUME NEW k \in DOMAIN handed, handed[k].message = i
       PROVE  TassoSignal(i).to = "updater"
  <2>1. handed[k].message <= received /\ handed[k].to = TassoSignal(i).to
    BY <1>1, <1>7, <1>10
  <2> QED
    BY <1>1, <1>10, <2>1 DEF TassoInv, HeardIsNew
<1>11. OpenedOnce'
  <2> SUFFICES ASSUME NEW j \in DOMAIN handed', NEW k \in DOMAIN handed', j < k,
                      handed'[j].message = handed'[k].message
               PROVE  handed'[k].to = "updater"
    BY DEF OpenedOnce
  <2>1. j \in DOMAIN handed
    BY <1>3
  <2>2. CASE k \in DOMAIN handed
    BY <1>3, <2>1, <2>2 DEF TassoInv, OpenedOnce
  <2>3. CASE k = Len(handed) + 1
    BY <1>2, <1>3, <1>10, <2>1, <2>3
  <2> QED
    BY <1>6, <2>2, <2>3
<1> QED
  BY <1>4, <1>8, <1>9, <1>11 DEF TassoInv

-----------------------------------------------------------------------------
LEMMA BotKeepsInv ==
    ASSUME TassoInv, NEW kind \in {"teaser", "prompt", "detail", "update", "stop"},
           NEW t \in Trades, BotSays(kind, t), UNCHANGED <<keyboard, received, talk, handed>>
    PROVE  TassoInv'
<1>1. [kind |-> kind, trade |-> t] \in BotMessages /\ sent \in Seq(BotMessages)
  BY DEF BotMessages, TassoInv, TassoTypes
<1>2. /\ sent' \in Seq(BotMessages) /\ Len(sent') = Len(sent) + 1 /\ Len(sent) \in Nat
      /\ \A i \in 1..Len(sent) : sent'[i] = sent[i]
  BY <1>1, AppendProperties DEF BotSays
<1>3. received \in Nat /\ received <= Len(sent) /\ talk.heard \in Seq(Nat)
  BY DEF TassoInv, TassoTypes
<1> QED
  BY <1>2, <1>3, CalmKeepsInv

LEMMA ReceiveKeepsInv == ASSUME TassoInv, Receive PROVE TassoInv'
<1> DEFINE i == received + 1
<1>1. /\ sent' = sent /\ keyboard' = keyboard /\ received' = i /\ i \in Nat /\ received \in Nat /\ i <= Len(sent)
      /\ Len(sent) \in Nat /\ sent \in Seq(BotMessages) /\ talk.heard \in Seq(Nat)
  BY DEF Receive, TassoInv, TassoTypes
<1>2. i \in 1..Len(sent) /\ i \in received + 1 .. received'
  BY <1>1
<1>3. \/ talk' = [teaser |-> i, at |-> "press", heard |-> <<>>]
      \/ talk' = talk
      \/ talk' = [talk EXCEPT !.heard = Append(@, i)]
  BY DEF Receive
<1>4. /\ talk'.heard \in Seq(Nat)
      /\ \A x \in DOMAIN talk'.heard :
           talk'.heard[x] = i \/ \E y \in DOMAIN talk.heard : talk'.heard[x] = talk.heard[y]
  <2>1. CASE talk' = [teaser |-> i, at |-> "press", heard |-> <<>>]
    <3>1. talk'.heard = <<>> /\ DOMAIN talk'.heard = {}
      BY <2>1
    <3> QED
      BY <3>1
  <2>2. CASE talk' = talk
    BY <1>1, <2>2
  <2>3. CASE talk' = [talk EXCEPT !.heard = Append(@, i)]
    <3>1. talk'.heard = Append(talk.heard, i)
      BY <1>1, <2>3
    <3> QED
      BY <1>1, <3>1, AppendProperties
  <2> QED
    BY <1>3, <2>1, <2>2, <2>3
<1>5. CASE handed' = handed
  BY <1>1, <1>2, <1>4, <1>5, CalmKeepsInv
<1>6. CASE /\ Classify(sent[i]) \in {"close_stop_hit", "parse_detail"}
           /\ handed' = Append(handed, TassoSignal(i))
  <2>1. TassoSignal(i).to \in {"closer", "updater"}
    BY <1>2, <1>6, CalleeOfPassive DEF TassoInv
  <2>2. i \in 1..received' /\ i > received
    BY <1>1
  <2>3. \A x \in DOMAIN talk'.heard :
           \/ talk'.heard[x] \in received + 1 .. received'
           \/ \E y \in DOMAIN talk.heard : talk'.heard[x] = talk.heard[y]
    BY <1>2, <1>4
  <2>4. received <= received' /\ received' <= Len(sent) /\ received' \in Nat
    BY <1>1
  <2> HIDE DEF i
  <2> QED
    BY <1>1, <1>4, <1>6, <2>1, <2>2, <2>3, <2>4, HandKeepsInv
<1> QED
  BY <1>5, <1>6 DEF Receive

(* A conversation stays where it was, or ends, and hands on nothing; or it  *)
(* ends with complete details it heard.                                     *)
LEMMA ConversesHow ==
    ASSUME Converses, TassoTypes
    PROVE  /\ UNCHANGED <<keyboard, sent, received>>
           /\ \/ handed' = handed /\ (talk' = Silence \/ talk'.heard = talk.heard)
              \/ /\ talk' = Silence
                 /\ \E x \in DOMAIN talk.heard :
                      /\ IsFullDetail(sent[talk.heard[x]])
                      /\ handed' = Append(handed, TassoSignal(talk.heard[x]))
<1>1. UNCHANGED <<keyboard, sent, received>>
  BY DEF Converses
<1>2. ASSUME NEW i, NEW label, NEW next, Press(i, label, next)
      PROVE  handed' = handed /\ talk'.heard = talk.heard
  <2>1. handed' = handed /\ talk' = [talk EXCEPT !.at = next]
    BY <1>2 DEF Press
  <2> QED
    BY <2>1
<1>3. ASSUME FlowFails PROVE handed' = handed /\ talk' = Silence
  BY <1>3 DEF FlowFails
<1>4. /\ talk.heard \in Seq(Nat) /\ Len(talk.heard) \in Nat
      /\ DOMAIN talk.heard = 1..Len(talk.heard)
  BY DEF TassoTypes
<1>5. CASE PressDetails
  BY <1>1, <1>2, <1>3, <1>5 DEF PressDetails
<1>6. CASE ReadAnswer
  <2>1. talk.heard # <<>> => 1 \in DOMAIN talk.heard
    BY <1>4
  <2> QED
    BY <1>1, <1>2, <1>3, <1>6, <2>1 DEF ReadAnswer, HandDetail
<1>7. CASE ReadDetail
  <2>1. Len(talk.heard) >= 2 => 2 \in DOMAIN talk.heard
    BY <1>4
  <2> QED
    BY <1>1, <1>3, <1>7, <2>1 DEF ReadDetail, HandDetail
<1> QED
  BY <1>5, <1>6, <1>7 DEF Converses

LEMMA ConversesKeepsInv == ASSUME TassoInv, Converses PROVE TassoInv'
<1>1. /\ UNCHANGED <<keyboard, sent, received>> /\ received \in Nat /\ received <= Len(sent)
      /\ Len(sent) \in Nat /\ sent \in Seq(BotMessages) /\ talk.heard \in Seq(Nat)
  BY ConversesHow DEF TassoInv, TassoTypes
<1>2. talk' = Silence =>
        talk'.heard = <<>> /\ DOMAIN talk'.heard = {} /\ talk'.heard \in Seq(Nat)
  BY DEF Silence
<1>3. CASE handed' = handed /\ (talk' = Silence \/ talk'.heard = talk.heard)
  BY <1>1, <1>2, <1>3, CalmKeepsInv
<1>4. CASE /\ talk' = Silence
           /\ \E x \in DOMAIN talk.heard :
                /\ IsFullDetail(sent[talk.heard[x]])
                /\ handed' = Append(handed, TassoSignal(talk.heard[x]))
  <2>1. PICK x \in DOMAIN talk.heard :
             /\ IsFullDetail(sent[talk.heard[x]])
             /\ handed' = Append(handed, TassoSignal(talk.heard[x]))
    BY <1>4
  <2>2. talk.heard[x] \in 1..received /\ talk.heard[x] \in 1..Len(sent)
    BY <1>1 DEF TassoInv, HeardIsNew
  <2>3. TassoSignal(talk.heard[x]).to \in {"executor", "updater"}
    BY <2>1, <2>2, CalleeOfDetails DEF TassoInv
  <2> DEFINE i == talk.heard[x]
  <2>4. /\ i \in 1..received' /\ \E y \in DOMAIN talk.heard : talk.heard[y] = i
        /\ DOMAIN talk'.heard = {} /\ talk'.heard \in Seq(Nat)
        /\ received' \in Nat /\ received <= received' /\ received' <= Len(sent)
    <3>1. received' = received
      BY <1>1
    <3>2. DOMAIN talk'.heard = {} /\ talk'.heard \in Seq(Nat)
      BY <1>2, <1>4
    <3>3. i \in 1..received' /\ \E y \in DOMAIN talk.heard : talk.heard[y] = i
      BY <2>2, <3>1
    <3> QED
      BY <1>1, <3>1, <3>2, <3>3
  <2> HIDE DEF i
  <2>5. /\ handed' = Append(handed, TassoSignal(i))
        /\ TassoSignal(i).to \in {"executor", "updater"}
    BY <2>1, <2>3 DEF i
  <2> QED
    BY <1>1, <2>4, <2>5, HandKeepsInv
<1> QED
  BY <1>3, <1>4, ConversesHow DEF TassoInv

LEMMA SessionKeepsInv ==
    ASSUME TassoInv, SessionEnds \/ SessionStarts \/ UNCHANGED tassoVars
    PROVE  TassoInv'
<1>1. /\ UNCHANGED <<keyboard, sent, handed>> /\ received \in Nat /\ received <= Len(sent)
      /\ Len(sent) \in Nat /\ sent \in Seq(BotMessages) /\ talk.heard \in Seq(Nat)
      /\ received' \in {received, Len(sent)} /\ talk' \in {talk, Silence}
  BY DEF SessionEnds, SessionStarts, tassoVars, TassoInv, TassoTypes
<1>2. talk' = Silence =>
        talk'.heard = <<>> /\ DOMAIN talk'.heard = {} /\ talk'.heard \in Seq(Nat)
  BY DEF Silence
<1> QED
  BY <1>1, <1>2, CalmKeepsInv

LEMMA NextKeepsTasso == TassoInv /\ [TassoNext]_tassoVars => TassoInv'
<1> SUFFICES ASSUME TassoInv, [TassoNext]_tassoVars PROVE TassoInv'
  OBVIOUS
<1>1. CASE \E t \in Trades : \E kind \in {"teaser", "update", "stop"} : BotPosts(kind, t)
  BY <1>1, BotKeepsInv DEF BotPosts
<1>2. CASE \E t \in Trades : OwnerAsks(t)
  BY <1>2, BotKeepsInv DEF OwnerAsks
<1>3. CASE \E t \in Trades : \E button \in {"details", "accept"} : BotAnswers(button, t)
  BY <1>3, BotKeepsInv DEF BotAnswers
<1>4. CASE Receive \/ Converses
  BY <1>4, ReceiveKeepsInv, ConversesKeepsInv
<1>5. CASE SessionEnds \/ SessionStarts \/ UNCHANGED tassoVars
  BY <1>5, SessionKeepsInv
<1> QED
  BY <1>1, <1>2, <1>3, <1>4, <1>5 DEF TassoNext, TassoQuiet

(* Only the conversation opens trades, and only from what it heard and has  *)
(* not used: process_tasso_bot_message ignores details nobody asked for.    *)
THEOREM TradesOpenedOnce == TassoSpec => []OpenedOnce
<1>1. TassoInv => OpenedOnce
  BY DEF TassoInv
<1> QED
  BY <1>1, InitTasso, NextKeepsTasso, PTL DEF TassoSpec
=============================================================================
