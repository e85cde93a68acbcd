---------------------------- MODULE AlertNotifier ----------------------------
(***************************************************************************)
(* The delivery of one alert after another (internal/alerts/notifier.go,   *)
(* and dispatch and TriggerTest of service.go): every enabled channel in   *)
(* turn, every channel with retries, every Telegram attempt chat by chat,  *)
(* and at the end an event in the history that says what became of it.     *)
(*                                                                         *)
(* The work is done by one goroutine with one context: the loop of         *)
(* Service.Run with the root context, or a handler with that of its        *)
(* request.  Notifier has no state of its own, so goroutines that deliver  *)
(* at the same time do not meet before the database.  A send may reach its *)
(* addressee and still be reported as failed, when the answer is lost.     *)
(* Delays are left out; what matters is that sleeping does not end when    *)
(* the context does.                                                       *)
(***************************************************************************)
EXTENDS Integers

CONSTANTS
    NumChats,       \* length of cfg.TelegramChatIDs when there are any
    MaxAttempts     \* longest cfg.RetryDelaysSec considered (a bound)

ASSUME AlertNotifierAssumption ==
    /\ NumChats \in Nat \ {0}
    /\ MaxAttempts \in Nat \ {0}

VARIABLES
    step,           \* what the goroutine does
    channel,        \* the channel it does it for
    cfgCopy,        \* the copy of the configuration made under s.mu
    attempts,       \* attempts[ch]: res.Attempts of the channel
    next,           \* the chat of the next request
    result,         \* result[ch]: what Notify reports of the channel
    reached,        \* reached[i]: copies of this alert that got to chat i
    mails,          \* copies of this alert that got to the recipients
    ctxDone,        \* ctx is cancelled
    late,           \* late[ch]: attempts begun under a cancelled context
    history         \* the event stored last, NoEvent when there is none

notifyVars == <<step, channel, cfgCopy, attempts, next, result, reached, mails, ctxDone,
                late, history>>

Channel == {"telegram", "email"}
Chat    == 1 .. NumChats

\* A channel is off, on, or on without what it needs (a token, a chat, an
\* address, a password, a recipient).  attempts is the length of the list of
\* delays, which sanitizeRetryDelays and Notify keep from being empty.
NotifyConfig == [telegram : {"off", "incomplete", "on"},
                 email    : {"off", "incomplete", "on"},
                 attempts : 1 .. MaxAttempts]

Nothing == [ch \in Channel |-> 0]
NoResult == [ch \in Channel |-> "none"]
NoEvent == [result |-> NoResult, attempts |-> Nothing]

NotifyInit ==
    /\ step = "idle" /\ channel = "telegram"
    /\ cfgCopy \in NotifyConfig
    /\ attempts = Nothing /\ next = 1 /\ result = NoResult
    /\ reached = [i \in Chat |-> 0] /\ mails = 0
    /\ ctxDone = FALSE /\ late = Nothing
    /\ history = NoEvent

-----------------------------------------------------------------------------
(* Faulty forms of the helpers below, kept to show that a property notices *)
(* the mistake.                                                            *)
OneMore(ch) == attempts[ch] > cfgCopy.attempts      \* i <= attempts
Optimistic == "success"                         \* the error is lost
RepeatRequest == UNCHANGED <<step, next>>       \* the chat tried again at once

-----------------------------------------------------------------------------
Enabled(ch) == cfgCopy[ch] # "off"

Complete(ch) == cfgCopy[ch] = "on"

\* Notify tries the channels in this order.
FirstChannel(c) == IF c["telegram"] # "off" THEN "telegram" ELSE "email"

\* fn is called: res.Attempts++.
BeginAttempt(ch) ==
    /\ step' = "send" /\ channel' = ch
    /\ attempts' = [attempts EXCEPT ![ch] = @ + 1]
    /\ late' = [late EXCEPT ![ch] = IF ctxDone THEN @ + 1 ELSE @]
    /\ next' = 1

\* The channel has its result; what comes after it.
Conclude(ch, res) ==
    /\ result' = [result EXCEPT ![ch] = res]
    /\ IF ch = "telegram" /\ Enabled("email")
       THEN BeginAttempt("email")
       ELSE step' = "save" /\ UNCHANGED <<channel, attempts, late, next>>

\* EvaluateSnapshot found a trigger, or TriggerTest a channel that is enabled: the
\* configuration is the one at that time, whatever happens to it meanwhile.
StartNotify(c) ==
    /\ step = "idle"
    /\ cfgCopy' = c
    /\ result' = NoResult
    /\ reached' = [i \in Chat |-> 0] /\ mails' = 0
    /\ next' = 1
    /\ \/ /\ c.telegram # "off" \/ c.email # "off"
          /\ step' = "send"
          /\ channel' = FirstChannel(c)
          /\ attempts' = [Nothing EXCEPT ![FirstChannel(c)] = 1]
          /\ late' = [Nothing EXCEPT ![FirstChannel(c)] = IF ctxDone THEN 1 ELSE 0]
       \/ /\ c.telegram = "off" /\ c.email = "off"
          /\ step' = "save"
          /\ attempts' = Nothing /\ late' = Nothing
          /\ UNCHANGED channel
    /\ UNCHANGED <<ctxDone, history>>

-----------------------------------------------------------------------------
(* One attempt.                                                            *)

\* sendTelegramDefault returns the error of a request at once.
Abandon == step' = "failed" /\ UNCHANGED next

\* sendTelegramDefault, one request: a cancelled context fails it unsent.
TelegramSends ==
    /\ step = "send" /\ channel = "telegram" /\ Complete("telegram")
    /\ ~ ctxDone
    /\ reached' = [reached EXCEPT ![next] = @ + 1]
    /\ IF next < NumChats
       THEN next' = next + 1 /\ UNCHANGED <<step, channel, attempts, late, result>>
       ELSE Conclude("telegram", "success")
    /\ UNCHANGED <<cfgCopy, mails, ctxDone, history>>

TelegramRefused ==
    /\ step = "send" /\ channel = "telegram"
    /\ Abandon
    /\ UNCHANGED <<channel, cfgCopy, attempts, result, reached, mails, ctxDone, late, history>>

\* The chat has the message, but the answer does not come in time.
TelegramAnswerLost ==
    /\ step = "send" /\ channel = "telegram" /\ Complete("telegram")
    /\ ~ ctxDone
    /\ reached' = [reached EXCEPT ![next] = @ + 1]
    /\ Abandon
    /\ UNCHANGED <<channel, cfgCopy, attempts, result, mails, ctxDone, late, history>>

\* sendEmailDefault, which knows nothing of the context.
EmailSends ==
    /\ step = "send" /\ channel = "email" /\ Complete("email")
    /\ mails' = mails + 1
    /\ Conclude("email", "success")
    /\ UNCHANGED <<cfgCopy, reached, ctxDone, history>>

EmailFails ==
    /\ step = "send" /\ channel = "email"
    /\ \/ Complete("email") /\ mails' = mails + 1
       \/ UNCHANGED mails
    /\ step' = "failed"
    /\ UNCHANGED <<channel, cfgCopy, attempts, next, result, reached, ctxDone, late, history>>

-----------------------------------------------------------------------------
(* retry.                                                                  *)

IsLast(ch) == attempts[ch] = cfgCopy.attempts

Noticed == ctxDone

ResultOfFailure == "failure"

\* The last attempt failed, or the context is done.
GiveUp ==
    /\ step = "failed"
    /\ IsLast(channel) \/ Noticed
    /\ Conclude(channel, ResultOfFailure)
    /\ UNCHANGED <<cfgCopy, reached, mails, ctxDone, history>>

Sleep ==
    /\ step = "failed"
    /\ ~ IsLast(channel) /\ ~ Noticed
    /\ step' = "asleep"
    /\ UNCHANGED <<channel, cfgCopy, attempts, next, result, reached, mails, ctxDone, late, history>>

\* n.sleep is over: the next attempt begins without another look at the context.
Wake ==
    /\ step = "asleep"
    /\ BeginAttempt(channel)
    /\ UNCHANGED <<cfgCopy, result, reached, mails, ctxDone, history>>

-----------------------------------------------------------------------------
SaveEvent ==
    /\ step = "save"
    /\ history' = [result |-> result, attempts |-> attempts]
    /\ step' = "idle"
    /\ UNCHANGED <<channel, cfgCopy, attempts, next, result, reached, mails, ctxDone, late>>

\* main has closed the database, or it reports an error: dispatch ignores it.
SaveEventFails ==
    /\ step = "save"
    /\ step' = "idle"
    /\ UNCHANGED <<channel, cfgCopy, attempts, next, result, reached, mails, ctxDone, late, history>>

CtxCancelled ==
    /\ ~ ctxDone
    /\ ctxDone' = TRUE
    /\ UNCHANGED <<step, channel, cfgCopy, attempts, next, result, reached, mails, late, history>>

TelegramAttempt == TelegramSends \/ TelegramRefused \/ TelegramAnswerLost

EmailAttempt == EmailSends \/ EmailFails

\* smtp.SendMail has been called; it is given neither a context nor a deadline.
MailUnderWay == step = "send" /\ channel = "email" /\ Complete("email")

NotifyNext ==
    \/ \E c \in NotifyConfig : StartNotify(c)
    \/ TelegramAttempt \/ EmailAttempt
    \/ GiveUp \/ Sleep \/ Wake
    \/ SaveEvent \/ SaveEventFails
    \/ CtxCancelled

NotifySpec == NotifyInit /\ [][NotifyNext]_notifyVars

\* The goroutine is scheduled and sleeps end.  A request to the Bot API ends, as
\* its client gives up after ten seconds; a mail ends at once when something that
\* it needs is missing, and otherwise nobody says when.
NotifyFairSpec ==
    /\ NotifySpec
    /\ WF_notifyVars(TelegramAttempt) /\ WF_notifyVars(~ MailUnderWay /\ EmailFails)
    /\ WF_notifyVars(GiveUp) /\ WF_notifyVars(Sleep) /\ WF_notifyVars(Wake)
    /\ WF_notifyVars(SaveEvent \/ SaveEventFails)

\* The mail server answers, or the connection to it fails.
SmtpReturns == WF_notifyVars(EmailAttempt)

-----------------------------------------------------------------------------
\* What the history will say is true: a channel is reported as a success only if
\* every chat, or every recipient, has the alert; a channel that was off has no
\* result, and one that was on has one.
ResultsAreTrue ==
    /\ result["telegram"] = "success" => \A i \in Chat : reached[i] > 0
    /\ result["email"] = "success" => mails > 0
    /\ step = "save" => \A ch \in Channel : Enabled(ch) <=> result[ch] # "none"

\* A retry repeats the alert to chats that have it, yet nobody gets more copies than
\* there were attempts, and there are no more attempts than delays. Once the context
\* is cancelled a channel begins at most one more, the one it was asleep before or the
\* one Notify opens the channel with (notifier.go:81-118).
RetriesAreBounded ==
    /\ \A i \in Chat : reached[i] <= attempts["telegram"]
    /\ mails <= attempts["email"]
    /\ \A ch \in Channel : attempts[ch] <= cfgCopy.attempts /\ late[ch] <= 1

\* Every alert comes to its end, however its sends fail: only the mail server can
\* hold it up (notifier.go:193), and with a mail server that always returns it ends
\* after all its attempts (notifier.go:36-118, service.go:162-169).
DeliveryEnds ==
    /\ (step # "idle") ~> (step = "idle" \/ MailUnderWay)
    /\ SmtpReturns => ((step # "idle") ~> (step = "idle"))
=============================================================================
