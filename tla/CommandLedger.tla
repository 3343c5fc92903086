---------------------------- MODULE CommandLedger ----------------------------
(***************************************************************************)
(* What the Telegram command queue promises (app/services/                 *)
(* telegram_command_queue.py): an accepted command is decided once, its    *)
(* decision is answered only after it is made, at most MaxAnswers times,   *)
(* and not again once the books on it are closed.                          *)
(***************************************************************************)
EXTENDS Integers

CONSTANTS
    Command,        \* the commands that may be accepted
    MaxAnswers      \* reply_max_attempts

VARIABLES
    decision,       \* per command: none, open, completed, failed, rejected
    closed,         \* per command: no further answer will be sent
    answers         \* per command: answers that reached the chat

ledger == <<decision, closed, answers>>

Decided == {"completed", "failed", "rejected"}

Init ==
    /\ decision = [c \in Command |-> "none"]
    /\ closed = [c \in Command |-> FALSE]
    /\ answers = [c \in Command |-> 0]

\* A malformed command is rejected as it is accepted.
Accept(c) ==
    /\ decision[c] = "none"
    /\ decision'[c] \in {"open", "rejected"}
    /\ closed'[c] = closed[c] /\ answers'[c] = answers[c]

\* A command of a revoked identity is decided and closed at once.
Decide(c) ==
    /\ decision[c] = "open"
    /\ decision'[c] \in Decided
    /\ closed'[c] \in BOOLEAN /\ answers'[c] = answers[c]

Answer(c) ==
    /\ decision[c] \in Decided
    /\ ~closed[c]
    /\ answers[c] < MaxAnswers
    /\ answers'[c] = answers[c] + 1
    /\ decision'[c] = decision[c] /\ closed'[c] = closed[c]

Close(c) ==
    /\ decision[c] \in Decided
    /\ closed'[c]
    /\ decision'[c] = decision[c] /\ answers'[c] = answers[c]

Same(c) ==
    /\ decision'[c] = decision[c]
    /\ closed'[c] = closed[c]
    /\ answers'[c] = answers[c]

\* One transaction of the queue may move several commands.
Next ==
    \A c \in Command :
        Accept(c) \/ Decide(c) \/ Answer(c) \/ Close(c) \/ Same(c)

Spec == Init /\ [][Next]_ledger
=============================================================================
