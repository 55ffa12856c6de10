------------------------------ MODULE CorpusChain ------------------------------
(***************************************************************************)
(* The requests of the corpus chain.  A fetch job that has committed a     *)
(* staging row asks for a promotion run; a promotion run that has saved a  *)
(* judgment asks for a mirror run; a run that leaves work behind, or finds *)
(* another one in progress, asks for the next.  A request is a key in      *)
(* Redis, which holds back further requests for a while, and a task whose  *)
(* countdown is as long as that while.  Beat sends the same tasks from     *)
(* time to time as the safety net.                                         *)
(*                                                                         *)
(* The modules Promotion and ArchiveMirror are the two ends of the chain.  *)
(* Tasks that are due and ask for the same thing are kept as one.  Setting *)
(* a key and sending its task are one step, except when a process dies     *)
(* between them.                                                           *)
(***************************************************************************)
EXTENDS Naturals, FiniteSets, Sequences

CONSTANTS
  Proc,      \* the processes that make requests
  Key,       \* what they ask for
  MaxFaults  \* bound: errors of Redis, of the broker and of archive targets, and dead processes

ASSUME FaultAssumption == MaxFaults \in Nat

VARIABLES
  key,       \* free, sent (with its task), or set (by a process that died before it sent the task)
  due,       \* tasks whose countdown is over, or that Beat sent
  asks,      \* the requests a process is about to make
  faults     \* how many there have been

requests == <<key, due, asks>>

RequestsTypeOK ==
  /\ key \in [Key -> {"free", "set", "sent"}] /\ due \subseteq Key
  /\ asks \in [Proc -> Seq(Key)]
  /\ faults \in 0..MaxFaults

RequestsInit ==
  /\ key = [k \in Key |-> "free"] /\ due = {} /\ asks = [p \in Proc |-> <<>>]
  /\ faults = 0

Fault == faults < MaxFaults /\ faults' = faults + 1

\* The process has no request under way.
Quiet(p)      == asks[p] = <<>>
AskFor(p, ks) == asks' = [asks EXCEPT ![p] = ks]

\* A request whose key is there is dropped.  A new one sets its key and sends its task; when Redis
\* or the broker fails, nothing is sent and the key is not left behind.
Request(p) ==
  /\ ~Quiet(p) /\ AskFor(p, Tail(asks[p])) /\ UNCHANGED due
  /\ \/ key[Head(asks[p])] # "free" /\ UNCHANGED <<key, faults>>
     \/ /\ key[Head(asks[p])] = "free"
        /\ key' = [key EXCEPT ![Head(asks[p])] = "sent"] /\ UNCHANGED faults
     \/ Fault /\ UNCHANGED key

\* The window is over: the key has expired and its task, if one was sent, is due.
Elapse(k) ==
  /\ \/ key[k] = "sent" /\ due' = due \cup {k}
     \/ key[k] = "set" /\ UNCHANGED due
  /\ key' = [key EXCEPT ![k] = "free"]
  /\ UNCHANGED <<asks, faults>>

\* celery-beat.
Beat(k) ==
  /\ k \notin due /\ due' = due \cup {k}
  /\ UNCHANGED <<key, asks, faults>>

\* A process dies before its requests are made, or between a key and its task.
DiesAsking(p) ==
  /\ ~Quiet(p) /\ AskFor(p, <<>>)
  /\ \/ UNCHANGED key
     \/ key[Head(asks[p])] = "free" /\ key' = [key EXCEPT ![Head(asks[p])] = "set"]

\* Somebody will ask, or has asked, for what k stands for.
Coming(k) ==
  key[k] = "sent" \/ k \in due \/ \E p \in Proc : \E i \in DOMAIN asks[p] : asks[p][i] = k
================================================================================
