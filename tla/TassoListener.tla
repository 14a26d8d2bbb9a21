--------------------------- MODULE TassoListener ---------------------------
(***************************************************************************)
(* The Tasso channel's handler: it answers the bot's teasers in a          *)
(* conversation, and reads every message of the bot at the same time.      *)
(*                                                                         *)
(* tasso/telegram_handler.py, telegram_buttons.py, signal_parser.py,       *)
(* signal_dispatch.py and executor.py.  The bot and Telethon are external: *)
(* a chat has one conversation at a time, a conversation hears the         *)
(* messages of the bot in their order from its opening on, whatever they   *)
(* answer, and the handlers are called for those messages too.             *)
(*                                                                         *)
(* Telethon's get_response raises in a conversation that has sent no       *)
(* message, and this one presses buttons only: as the library is today the *)
(* flow ends there, and no teaser leads to a trade.  Whether it raises is  *)
(* left open here, so that what is shown holds for a library that waits.   *)
(***************************************************************************)
EXTENDS Integers, Sequences, FiniteSets, SequencesExt

CONSTANTS
    Trades,       \* the bot's trades
    Curto,        \* those it posts as short ones
    Keyboards,    \* those a teaser and a prompt may have: rows of labels
    MaxSent,      \* bound: messages of the bot
    MaxFalls      \* bound: ends of the session

ASSUME TassoAssumption ==
    /\ Curto \subseteq Trades
    /\ \A rows \in Keyboards : rows \in
          [{"teaser", "prompt"} -> Seq(Seq({"details", "accept", "refuse", "other"}))]
    /\ MaxSent \in Nat /\ MaxFalls \in Nat

VARIABLES
    keyboard,    \* the bot's, which does not change
    sent,        \* the bot's messages: [kind, trade]
    received,    \* how many of them have passed the session
    online,
    talk,        \* the conversation: its teaser, where it stands, what it heard
    asked,       \* buttons pressed that the bot has not answered
    handed,      \* history: what dispatch_tasso_signal passed on, and to whom
    falls

tassoVars == <<keyboard, sent, received, online, talk, asked, handed, falls>>

Callees == {"executor", "updater", "closer"}
Silence == [teaser |-> 0, at |-> "none", heard |-> <<>>]

TassoTypeOK ==
    /\ keyboard \in Keyboards
    /\ sent \in Seq([kind : {"teaser", "prompt", "detail", "update", "stop"}, trade : Trades])
    /\ received \in 0..Len(sent) /\ online \in BOOLEAN
    /\ talk \in [teaser : 0..received, heard : Seq(1..received),
                 at : {"none", "press", "answer", "accept", "detail"}]
    /\ asked \subseteq {"details", "accept"} \X Trades
    /\ handed \in Seq([to : Callees, message : 1..received,
                       profile : {"tasso_long", "tasso_curto"}])
    /\ falls \in 0..MaxFalls

TassoInit ==
    /\ keyboard \in Keyboards
    /\ sent = <<>> /\ received = 0 /\ online = TRUE
    /\ talk = Silence /\ asked = {}
    /\ handed = <<>>
    /\ falls = 0

-----------------------------------------------------------------------------
(* The patterns a text of the bot contains, and its keyboard.               *)
TextOf(m) ==
    LET details == {"symbol", "price", "stoploss"}
                     \cup (IF m.trade \in Curto THEN {"aggressive"} ELSE {})
    IN  CASE m.kind = "teaser" -> IF m.trade \in Curto THEN {"trade curto"} ELSE {"trade novo"}
          [] m.kind = "prompt" -> {"trade curto", "high risk"}
          [] m.kind = "detail" -> details
          [] m.kind = "update" -> details \cup {"updated"}
          [] m.kind = "stop" -> {"stop hit"}

RowsOf(m) == IF m.kind \in DOMAIN keyboard THEN keyboard[m.kind] ELSE <<>>

HasButton(m, labels) == \E i \in DOMAIN RowsOf(m) : ToSet(RowsOf(m)[i]) \cap labels # {}

-----------------------------------------------------------------------------
(* is_full_trade_detail, is_trade_teaser, is_curto_accept_prompt.           *)
IsFullDetail(m) == {"symbol", "price", "stoploss"} \subseteq TextOf(m)

IsTeaser(m) ==
    /\ ~IsFullDetail(m) /\ "high risk" \notin TextOf(m)
    /\ {"trade curto", "trade novo"} \cap TextOf(m) # {}

IsAcceptPrompt(m) ==
    ~IsFullDetail(m) /\ {"trade curto", "high risk"} \cap TextOf(m) # {}

IsUpdate(m) == "updated" \in TextOf(m)

(* Mutant of Classify: details nobody asked for are taken as a signal too.  *)
ClassifyPassive(m) ==
    IF "stop hit" \in TextOf(m) THEN "close_stop_hit"
    ELSE IF IsTeaser(m) \/ (HasButton(m, {"details"}) /\ ~IsFullDetail(m))
         THEN "request_details"
    ELSE IF IsFullDetail(m) THEN "parse_detail" ELSE "ignore"

(* classify_message: of the complete details only updates are taken as they *)
(* come, new ones are an answer somebody waits for.                         *)
Classify(m) ==
    IF "stop hit" \in TextOf(m) THEN "close_stop_hit"
    ELSE IF IsTeaser(m) \/ (HasButton(m, {"details"}) /\ ~IsFullDetail(m))
         THEN "request_details"
    ELSE IF IsFullDetail(m) /\ IsUpdate(m) THEN "parse_detail" ELSE "ignore"

(* resolve_profile_from_detail: by the words about risk; parse_trade_details *)
(* lets it overrule what the conversation knows.                            *)
ProfileOf(m) == IF "aggressive" \in TextOf(m) THEN "tasso_curto" ELSE "tasso_long"

(* dispatch_tasso_signal of what parse_stop_hit or parse_trade_details read. *)
TassoSignal(i) ==
    LET m == sent[i]
    IN  [message |-> i, profile |-> ProfileOf(m),
         to |-> IF Classify(m) = "close_stop_hit" THEN "closer"
                ELSE IF IsUpdate(m) THEN "updater" ELSE "executor"]

(* click_inline_button: the column of the first matching button, in its row, *)
(* is used as an index into the whole keyboard; without a match the first   *)
(* button of all.                                                           *)
Pressed(rows, label) ==
    LET matching == {i \in DOMAIN rows : label \in ToSet(rows[i])}
        row == CHOOSE i \in matching : \A j \in matching : i <= j
        column == CHOOSE c \in DOMAIN rows[row] :
                      /\ rows[row][c] = label
                      /\ \A d \in DOMAIN rows[row] : rows[row][d] = label => c <= d
    IN  IF matching # {} THEN FlattenSeq(rows)[column]
        ELSE IF rows # <<>> /\ rows[1] # <<>> THEN rows[1][1] ELSE "nothing"

-----------------------------------------------------------------------------
(* The bot: one teaser per trade; updates and stops of what it has detailed; *)
(* and the owner of the account may ask for details by hand.                *)
Posted(kind, t) == \E i \in DOMAIN sent : sent[i] = [kind |-> kind, trade |-> t]

BotSays(kind, t) ==
    /\ Len(sent) < MaxSent
    /\ sent' = Append(sent, [kind |-> kind, trade |-> t])

BotPosts(kind, t) ==
    /\ kind \in {"teaser", "update", "stop"} /\ ~Posted(kind, t)
    /\ kind # "teaser" => Posted("teaser", t)
    /\ BotSays(kind, t)
    /\ UNCHANGED <<keyboard, received, online, talk, asked, handed, falls>>

OwnerAsks(t) ==
    /\ Posted("teaser", t) /\ ~Posted("detail", t)
    /\ BotSays("detail", t)
    /\ UNCHANGED <<keyboard, received, online, talk, asked, handed, falls>>

BotAnswers(button, t) ==
    /\ <<button, t>> \in asked
    /\ asked' = asked \ {<<button, t>>}
    /\ BotSays(IF button = "details" /\ t \in Curto THEN "prompt" ELSE "detail", t)
    /\ UNCHANGED <<keyboard, received, online, talk, handed, falls>>

-----------------------------------------------------------------------------
(* process_tasso_bot_message, up to the opening of a conversation: while    *)
(* one is open another raises, and the teaser is behind.                    *)
Receive ==
    /\ online /\ received < Len(sent)
    /\ received' = received + 1
    /\ LET i == received + 1
           heard == IF talk = Silence THEN talk ELSE [talk EXCEPT !.heard = Append(@, i)]
       IN  \/ /\ Classify(sent[i]) = "request_details"
              /\ talk' = IF talk = Silence
                         THEN [teaser |-> i, at |-> "press", heard |-> <<>>] ELSE heard
              /\ UNCHANGED handed
           \/ /\ Classify(sent[i]) \in {"close_stop_hit", "parse_detail"}
              /\ handed' = Append(handed, TassoSignal(i))
              /\ talk' = heard
           \/ /\ Classify(sent[i]) = "ignore"
              /\ talk' = heard
              /\ UNCHANGED handed
    /\ UNCHANGED <<keyboard, sent, online, asked, falls>>

(* The conversation ends without a trade: whatever raises in it is caught,  *)
(* and the flow gives up on answers it does not expect.                     *)
FlowFails == talk' = Silence /\ UNCHANGED <<asked, handed>>

(* A button of message i is pressed, and the conversation waits.            *)
Press(i, label, next) ==
    LET button == Pressed(RowsOf(sent[i]), label)
    IN  /\ button # "nothing"
        /\ asked' = IF button \in {"details", "accept"}
                    THEN asked \cup {<<button, sent[i].trade>>} ELSE asked
        /\ talk' = [talk EXCEPT !.at = next]
        /\ UNCHANGED handed

(* The details are dispatched, and the conversation is over.                *)
HandDetail(i) ==
    /\ IsFullDetail(sent[i])
    /\ handed' = Append(handed, TassoSignal(i))
    /\ talk' = Silence
    /\ UNCHANGED asked

PressDetails ==
    talk.at = "press" /\ (Press(talk.teaser, "details", "answer") \/ FlowFails)

(* The first answer, if get_response gives one: a prompt is accepted,       *)
(* complete details are the signal.                                         *)
ReadAnswer ==
    /\ talk.at = "answer"
    /\ \/ FlowFails
       \/ /\ talk.heard # <<>>
          /\ LET i == talk.heard[1]
             IN  IF IsAcceptPrompt(sent[i]) \/ HasButton(sent[i], {"accept", "refuse"})
                 THEN Press(i, "accept", "detail") ELSE HandDetail(i)

(* The second one.                                                          *)
ReadDetail ==
    /\ talk.at = "detail"
    /\ FlowFails \/ (Len(talk.heard) >= 2 /\ HandDetail(talk.heard[2]))

Converses ==
    /\ online
    /\ PressDetails \/ ReadAnswer \/ ReadDetail
    /\ UNCHANGED <<keyboard, sent, received, online, falls>>

(* The session ends, and with it the conversation; what is sent until the   *)
(* next one is never received.                                              *)
SessionEnds ==
    /\ online /\ falls < MaxFalls
    /\ falls' = falls + 1 /\ online' = FALSE
    /\ talk' = Silence
    /\ UNCHANGED <<keyboard, sent, received, asked, handed>>

SessionStarts ==
    /\ ~online /\ online' = TRUE
    /\ received' = Len(sent)
    /\ UNCHANGED <<keyboard, sent, talk, asked, handed, falls>>

TassoQuiet == received = Len(sent) /\ talk = Silence /\ UNCHANGED tassoVars

TassoNext ==
    \/ \E t \in Trades :
         \/ \E kind \in {"teaser", "update", "stop"} : BotPosts(kind, t)
         \/ OwnerAsks(t)
         \/ \E button \in {"details", "accept"} : BotAnswers(button, t)
    \/ Receive \/ Converses
    \/ SessionEnds \/ SessionStarts
    \/ TassoQuiet

TassoSpec == TassoInit /\ [][TassoNext]_tassoVars

-----------------------------------------------------------------------------
(* The handler and the conversation both see every message: one message     *)
(* with the details of a new trade is never taken for a signal by both.     *)
(* Of the same update both may make one.                                    *)
OpenedOnce ==
    \A j, k \in DOMAIN handed :
        j < k /\ handed[j].message = handed[k].message => handed[k].to = "updater"
=============================================================================
