----------------------------- MODULE OtcIntake -----------------------------
(***************************************************************************)
(* How a message of the signal room becomes a dispatched signal: the two   *)
(* Telegram listeners, the Redis key of each message, the parser.          *)
(*                                                                         *)
(* otc/telegram_listener.py, telegram_user_listener.py, telegram_runner.py, *)
(* telegram_handler.py, telegram_dedup.py, telegram_utils.py and           *)
(* signal_parser.py.  Telegram is external: it numbers its updates, keeps  *)
(* those no poll has confirmed, and pushes new messages to a user session. *)
(* The clock ticks in parts of a day, a batch of updates is handled within *)
(* a tick.                                                                 *)
(***************************************************************************)
EXTENDS Integers, Sequences, FiniteSets, SequencesExt

CONSTANTS
    Messages,      \* message ids of the room and of the other chats
    Posts,         \* what may be posted: a chat, and a text: a sequence of lines
    Source,        \* resolve_otc_telegram_chat_id
    Modes,         \* telegram.mode as configured over time: "bot", "user"
    KeyTtl,        \* DEDUP_TTL_SECONDS, in ticks
    Retention,     \* how long Telegram keeps an update, in ticks
    MaxUpdates,    \* bound: posts and edits
    MaxDayPart,    \* bound: the clock
    MaxDeaths,     \* bound: deaths of the listener
    MaxMishaps     \* bound: calls that raise

ASSUME IntakeAssumption ==
    /\ Messages \subseteq Nat
    /\ KeyTtl \in Nat /\ Retention \in Nat \ {0} /\ Retention <= KeyTtl
    /\ Modes \subseteq {"bot", "user"}
    /\ MaxUpdates \in Nat /\ MaxDayPart \in Nat
    /\ MaxDeaths \in Nat /\ MaxMishaps \in Nat

VARIABLES
    dayPart,     \* the clock
    posted,      \* every update Telegram has numbered, in order
    confirmed,   \* updates below this number are gone from the server
    savedOffset, \* otc:telegram:offset
    keyUntil,    \* otc:telegram:msg:<chat>:<message>: when the key expires
    listener,    \* mode, where it stands, its offset, the updates in hand
    dispatched,  \* history: what dispatch_otc_signal was given, and of which update
    excused,     \* history: updates a fault hit while they were in hand, or never delivered
    deaths, mishaps

intakeVars == <<dayPart, posted, confirmed, savedOffset, keyUntil, listener,
                dispatched, excused, deaths, mishaps>>

Updates == 1..Len(posted)

(* chat_id_matches: an id of the form -100n, n, or a group's -n; a name     *)
(* matches itself.                                                          *)
ChatMatches(configured, incoming) ==
    \/ configured = incoming
    \/ /\ configured.tail = incoming.tail
       /\ {configured.form, incoming.form} \subseteq {"channel", "plain"}

(* parse_telegram_signal over the lines of a text: each field is taken from *)
(* the first line that has it, protections from every line that names one.  *)
(* A line is a record: what it says, and the value read from it, with       *)
(* "unreadable" for one the patterns match but no conversion accepts.       *)
Says(text, what) == SelectSeq(text, LAMBDA line : line.says = what)

FirstValue(text, what, default) ==
    LET lines == Says(text, what)
    IN  IF lines = <<>> THEN default ELSE lines[1].value

Readable(value, default) == IF value = "unreadable" THEN default ELSE value

IsSignal(text) == \A what \in {"entrada", "asset", "direction"} : Says(text, what) # <<>>

ParseSignal(text) ==
    LET expiry == FirstValue(text, "expiry", 1)
        legs == SelectSeq(Says(text, "protection"),
                          LAMBDA line : line.value # "unreadable")
    IN  [asset     |-> FirstValue(text, "asset", "none"),
         direction |-> IF FirstValue(text, "direction", "none") \in {"COMPRA", "CALL", "UP"}
                       THEN "buy" ELSE "sell",
         expiry    |-> IF expiry < 1 THEN 1 ELSE expiry,
         entry     |-> Readable(FirstValue(text, "time", "none"), "none"),
         maxAuto   |-> FirstValue(text, "upto", "none"),
         level     |-> FirstValue(text, "manual", 0),
         schedule  |-> [i \in DOMAIN legs |-> legs[i].value]]

Dispatched(u) == [update |-> u, signal |-> ParseSignal(posted[u].text)]

IntakeTypeOK ==
    /\ dayPart \in 0..MaxDayPart
    /\ posted \in Seq([message : Messages, edited : BOOLEAN, at : 0..MaxDayPart,
                       chat : {p.chat : p \in Posts}, text : {p.text : p \in Posts}])
    /\ confirmed \in 1..(Len(posted) + 1) /\ savedOffset \in 0..(Len(posted) + 1)
    /\ keyUntil \in [Messages -> 0..(MaxDayPart + KeyTtl)]
    /\ listener \in [mode : Modes, at : {"down", "poll", "claim", "dispatch", "save"},
                     offset : 0..(Len(posted) + 1), hand : Seq(Updates)]
    /\ dispatched \in Seq({Dispatched(u) : u \in Updates})
    /\ excused \subseteq Updates
    /\ deaths \in 0..MaxDeaths /\ mishaps \in 0..MaxMishaps

Down(mode) == [mode |-> mode, at |-> "down", offset |-> 0, hand |-> <<>>]

IntakeInit ==
    /\ dayPart = 0
    /\ posted = <<>> /\ confirmed = 1 /\ savedOffset = 0
    /\ keyUntil = [m \in Messages |-> 0]
    /\ listener \in {Down(mode) : mode \in Modes}
    /\ dispatched = <<>> /\ excused = {}
    /\ deaths = 0 /\ mishaps = 0

-----------------------------------------------------------------------------
(* Telegram numbers messages upwards.  An update is pushed to a connected   *)
(* user session when it is new; a bot asks for it.                          *)
Connected == listener.mode = "user" /\ listener.at # "down"

Publish(update) ==
    /\ Len(posted) < MaxUpdates
    /\ posted' = Append(posted, update)
    /\ IF Connected /\ ~update.edited
       THEN /\ listener' = [listener EXCEPT !.hand = Append(@, Len(posted')),
                                            !.at = IF @ = "poll" THEN "claim" ELSE @]
            /\ UNCHANGED excused
       ELSE /\ UNCHANGED listener
            /\ excused' = IF listener.mode = "user"
                          THEN excused \cup {Len(posted')} ELSE excused
    /\ UNCHANGED <<dayPart, confirmed, savedOffset, keyUntil, dispatched, deaths, mishaps>>

Post(m) ==
    /\ \A u \in Updates : posted[u].message # m
    /\ \A n \in Messages : n < m => \E u \in Updates : posted[u].message = n
    /\ \E p \in Posts :
         Publish([message |-> m, edited |-> FALSE, chat |-> p.chat, text |-> p.text,
                  at |-> dayPart])

Edit(m) ==
    \E u \in Updates :
        /\ posted[u].message = m
        /\ \E p \in Posts :
             /\ p.chat = posted[u].chat
             /\ Publish([posted[u] EXCEPT !.edited = TRUE, !.text = p.text, !.at = dayPart])

Kept(u) == u >= confirmed /\ dayPart < posted[u].at + Retention

(* What getUpdates answers for an offset.                                   *)
Pending(offset) == {u \in Updates : Kept(u) /\ u >= offset}

Ascending(updates) ==
    {batch \in [1..Cardinality(updates) -> updates] :
        \A i, j \in DOMAIN batch : i < j => batch[i] < batch[j]}

(* A batch is handled, and a running listener polls, well within a tick;    *)
(* what Telegram drops at the tick is excused.                              *)
DayPartPasses ==
    /\ dayPart < MaxDayPart
    /\ listener.at = "down" \/ listener.at = "poll"
    /\ listener.at = "poll" /\ listener.mode = "bot" => Pending(listener.offset) = {}
    /\ dayPart' = dayPart + 1
    /\ excused' = excused \cup {u \in Updates : Kept(u) /\ posted[u].at + Retention = dayPart'}
    /\ UNCHANGED <<posted, confirmed, savedOffset, keyUntil, listener, dispatched,
                   deaths, mishaps>>

-----------------------------------------------------------------------------
(* telegram_runner chooses the listener by the mode of the moment; a user   *)
(* session is told nothing of what was posted before it connected.          *)
ListenerStarts(mode) ==
    /\ listener.at = "down"
    /\ listener' = [mode |-> mode, at |-> "poll", hand |-> <<>>,
                    offset |-> IF mode = "bot" THEN savedOffset ELSE 0]
    /\ excused' = IF mode = "user" THEN excused \cup Updates ELSE excused
    /\ UNCHANGED <<dayPart, posted, confirmed, savedOffset, keyUntil, dispatched,
                   deaths, mishaps>>

(* The process dies, or autoheal restarts a user listener whose heartbeat   *)
(* stopped while a message was handled.                                     *)
ListenerDies ==
    /\ listener.at # "down" /\ deaths < MaxDeaths
    /\ deaths' = deaths + 1
    /\ listener' = Down(listener.mode)
    /\ excused' = IF listener.mode = "user"
                  THEN excused \cup ToSet(listener.hand)
                  ELSE IF listener.at = "dispatch"
                       THEN excused \cup {listener.hand[1]} ELSE excused
    /\ UNCHANGED <<dayPart, posted, confirmed, savedOffset, keyUntil, dispatched, mishaps>>

(* fetch_updates: the offset confirms what precedes it; a poll that fails   *)
(* changes nothing.                                                         *)
FetchUpdates ==
    /\ listener.mode = "bot" /\ listener.at = "poll"
    /\ Pending(listener.offset) # {} \/ listener.offset > confirmed
    /\ confirmed' = IF listener.offset > confirmed THEN listener.offset ELSE confirmed
    /\ \E batch \in Ascending(Pending(listener.offset)) :
         listener' = [listener EXCEPT !.at = IF batch = <<>> THEN "poll" ELSE "claim",
                                      !.hand = batch]
    /\ UNCHANGED <<dayPart, posted, savedOffset, keyUntil, dispatched, excused, deaths,
                   mishaps>>

(* Mutant of NextUpdate: the first update read ends the batch.              *)
NextUpdateDropsBatch(u) ==
    [listener EXCEPT !.hand = <<>>, !.offset = Len(posted) + 1, !.at = "poll"]

(* The loop goes on with the next update; the bot's offset is past this one. *)
NextUpdate(u) ==
    LET rest == Tail(listener.hand)
    IN  [listener EXCEPT !.hand = rest,
             !.offset = IF listener.mode = "bot" /\ u >= @ THEN u + 1 ELSE @,
             !.at = IF rest # <<>> THEN "claim"
                    ELSE IF listener.mode = "bot" THEN "save" ELSE "poll"]

(* extract_message and chat_id_matches: what is looked at at all.           *)
Relevant(u) == posted[u].text # <<>> /\ ChatMatches(Source, posted[u].chat)

(* Mutant of KeyExpiry: a key that lives a tick less than Telegram keeps an *)
(* update.                                                                  *)
KeyExpiryShort == dayPart + Retention - 1

KeyExpiry == dayPart + KeyTtl

(* process_update up to is_duplicate_message.  An exception is logged and   *)
(* the update is behind.                                                    *)
ClaimMessage ==
    /\ listener.at = "claim"
    /\ LET u == listener.hand[1]
           m == posted[u].message
       IN  \/ /\ ~Relevant(u) \/ dayPart < keyUntil[m]
              /\ listener' = NextUpdate(u)
              /\ UNCHANGED <<keyUntil, excused, mishaps>>
           \/ /\ Relevant(u) /\ dayPart >= keyUntil[m]
              /\ keyUntil' = [keyUntil EXCEPT ![m] = KeyExpiry]
              /\ listener' = IF IsSignal(posted[u].text)
                             THEN [listener EXCEPT !.at = "dispatch"] ELSE NextUpdate(u)
              /\ UNCHANGED <<excused, mishaps>>
           \/ /\ Relevant(u) /\ mishaps < MaxMishaps
              /\ mishaps' = mishaps + 1
              /\ listener' = NextUpdate(u)
              /\ excused' = excused \cup {u}
              /\ keyUntil' \in {keyUntil, [keyUntil EXCEPT ![m] = KeyExpiry]}
    /\ UNCHANGED <<dayPart, posted, confirmed, savedOffset, dispatched, deaths>>

(* dispatch_otc_signal: it may fail before the signal is queued or run, or  *)
(* after.                                                                   *)
DispatchMessage ==
    /\ listener.at = "dispatch"
    /\ LET u == listener.hand[1]
       IN  /\ listener' = NextUpdate(u)
           /\ \/ dispatched' = Append(dispatched, Dispatched(u)) /\ UNCHANGED <<excused, mishaps>>
              \/ /\ mishaps < MaxMishaps /\ mishaps' = mishaps + 1
                 /\ \/ excused' = excused \cup {u} /\ UNCHANGED dispatched
                    \/ dispatched' = Append(dispatched, Dispatched(u)) /\ UNCHANGED excused
    /\ UNCHANGED <<dayPart, posted, confirmed, savedOffset, keyUntil, deaths>>

(* save_listener_offset: nothing catches its exception, the process ends.   *)
SaveOffset ==
    /\ listener.at = "save"
    /\ \/ /\ savedOffset' = listener.offset
          /\ listener' = [listener EXCEPT !.at = "poll"]
          /\ UNCHANGED mishaps
       \/ /\ mishaps < MaxMishaps /\ mishaps' = mishaps + 1
          /\ listener' = Down("bot")
          /\ UNCHANGED savedOffset
    /\ UNCHANGED <<dayPart, posted, confirmed, keyUntil, dispatched, excused, deaths>>

ListenerWorks == FetchUpdates \/ ClaimMessage \/ DispatchMessage \/ SaveOffset

IntakeQuiet == dayPart = MaxDayPart /\ UNCHANGED intakeVars

IntakeNext ==
    \/ \E m \in Messages : Post(m) \/ Edit(m)
    \/ DayPartPasses
    \/ \E mode \in Modes : ListenerStarts(mode)
    \/ ListenerDies
    \/ ListenerWorks
    \/ IntakeQuiet

IntakeSpec == IntakeInit /\ [][IntakeNext]_intakeVars

(* restart: unless-stopped starts the process again, and its loop runs.     *)
IntakeFairSpec ==
    /\ IntakeSpec
    /\ WF_intakeVars(ListenerWorks)
    /\ WF_intakeVars(\E mode \in Modes : ListenerStarts(mode))

-----------------------------------------------------------------------------
(* A message is dispatched once, however often a crash or an unsaved offset *)
(* has its update delivered again and whichever listener receives it: only  *)
(* an edited message can be dispatched a second time.                       *)
HandledOnce ==
    \A i, j \in DOMAIN dispatched :
        i < j /\ posted[dispatched[i].update].message = posted[dispatched[j].update].message
            => posted[dispatched[j].update].edited

Handled(u) ==
    \E i \in DOMAIN dispatched :
        posted[dispatched[i].update].message = posted[u].message

(* Every signal of the room is dispatched in the end, unless it is excused: *)
(* the fault hit that very update, or Telegram no longer delivers it.       *)
(* Deaths and exceptions take none of the others of the batch with them.    *)
(* What is handled stays so: again and again nothing posted is left.        *)
EverySignalHandled ==
    []<>(\A u \in Updates :
            Relevant(u) /\ IsSignal(posted[u].text) /\ ~posted[u].edited
                => u \in excused \/ Handled(u))
=============================================================================
