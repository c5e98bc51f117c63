-------------------------- MODULE DownloadContract --------------------------
(***************************************************************************)
(* What the download service promises to its clients, without its timer,   *)
(* threads and files: a requested twyst waits in a queue, a queue works on *)
(* one twyst at a time, and every twyst it takes up is answered with       *)
(* exactly one notification.  A client that is told of a finished download *)
(* finds the record, unless it was deleted meanwhile.                      *)
(*                                                                         *)
(* TwystDownload implements it; the clients are modelled against it.       *)
(***************************************************************************)
EXTENDS Naturals, Sequences

CONSTANTS Twysts,   \* twyst ids
          Queues    \* the download queues

VARIABLES
    queued,     \* the twysts that wait in each queue
    owed,       \* the twysts that each queue has taken up and not answered
    notices,    \* notifications posted and not yet delivered
    stored,     \* the twysts that have a record
    deleted     \* the twysts whose record was deleted while it was awaited

contractVars == <<queued, owed, notices, stored, deleted>>

Notice == [kind : {"did", "fail"}, q : Queues, twyst : Twysts]

ContractInit ==
    /\ queued = [q \in Queues |-> {}]
    /\ owed = [q \in Queues |-> {}]
    /\ notices = <<>>
    /\ stored = {}
    /\ deleted = {}

Noticed(t) == \E i \in 1..Len(notices) : notices[i].twyst = t

\* Somebody is still to hear of a download of t.
Awaited(t) == (\E q \in Queues : t \in owed[q]) \/ Noticed(t)

Request(q, t) ==
    /\ queued' = [queued EXCEPT ![q] = @ \cup {t}]
    /\ UNCHANGED <<owed, notices, stored, deleted>>

TakeUp(q, t) ==
    /\ t \in queued[q]
    /\ owed[q] = {}
    /\ queued' = [queued EXCEPT ![q] = @ \ {t}]
    /\ owed' = [owed EXCEPT ![q] = {t}]
    /\ UNCHANGED <<notices, stored, deleted>>

Answer(q, t, kind) ==
    /\ t \in owed[q]
    /\ owed' = [owed EXCEPT ![q] = @ \ {t}]
    /\ notices' = Append(notices, [kind |-> kind, q |-> q, twyst |-> t])
    /\ UNCHANGED <<queued, stored, deleted>>

\* A record appears only for a download that somebody waits for.
Save(t) ==
    /\ Awaited(t)
    /\ stored' = stored \cup {t}
    /\ UNCHANGED <<queued, owed, notices, deleted>>

\* A client or a notification deletes the record.
Delete(t) ==
    /\ t \in stored
    /\ stored' = stored \ {t}
    /\ deleted' \in {deleted, deleted \cup {t}}
    /\ Awaited(t) => t \in deleted'
    /\ UNCHANGED <<queued, owed, notices>>

Deliver(n) ==
    /\ notices # <<>>
    /\ n = Head(notices)
    /\ n.kind = "did" => n.twyst \in stored \/ n.twyst \in deleted
    /\ notices' = Tail(notices)
    /\ UNCHANGED <<queued, owed, stored, deleted>>

ContractNext ==
    \/ \E q \in Queues, t \in Twysts :
          \/ Request(q, t)
          \/ TakeUp(q, t)
          \/ \E kind \in {"did", "fail"} : Answer(q, t, kind)
    \/ \E t \in Twysts : Save(t) \/ Delete(t)
    \/ \E n \in Notice : Deliver(n)

ContractSpec == ContractInit /\ [][ContractNext]_contractVars

\* What a queue takes up it answers in the end.
EveryDownloadIsAnswered ==
    \A q \in Queues, t \in Twysts : t \in owed[q] ~> t \notin owed[q]
=============================================================================
