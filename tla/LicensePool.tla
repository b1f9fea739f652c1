------------------------------ MODULE LicensePool ------------------------------
(***************************************************************************)
(* What the licence server of lab5 promises, without its queue, threads,   *)
(* counter or critical section: a pool of MaxUsers licences, numbered from *)
(* 1, that serves one query at a time against the table of granted         *)
(* licences and takes back, in one step, licences whose holders are dead.  *)
(* Module LicenseServer is shown to implement it.                          *)
(***************************************************************************)
EXTENDS Naturals, Functions

CONSTANTS
  Proc,      \* the instances of the licensed program
  PidOf,     \* the process id the operating system gave each instance
  MaxUsers,  \* the number of licences
  NoQuery,   \* no query is being served
  NoAnswer   \* the query being served has no answer yet

VARIABLES
  life,      \* "new", "alive" or "dead", for each instance
  grants,    \* partial function: licence number -> the instance it was granted to
  query,     \* the query being served, or NoQuery
  answer     \* its answer, or NoAnswer

poolVars == <<life, grants, query, answer>>

PoolPidAlive(pid) == \E p \in Proc : PidOf[p] = pid /\ life[p] = "alive"

Unused == (1..MaxUsers) \ DOMAIN grants

PoolInit ==
  /\ life = [p \in Proc |-> "new"]
  /\ grants = << >>
  /\ query = NoQuery
  /\ answer = NoAnswer

-----------------------------------------------------------------------------
Begin ==
  /\ \E p \in Proc : /\ life[p] = "new"
                     /\ ~PoolPidAlive(PidOf[p])
                     /\ life' = [life EXCEPT ![p] = "alive"]
  /\ UNCHANGED <<grants, query, answer>>

Die ==
  /\ \E p \in Proc : /\ life[p] = "alive"
                     /\ life' = [life EXCEPT ![p] = "dead"]
  /\ UNCHANGED <<grants, query, answer>>

(* A query of an instance that has been started, possibly dead by now. *)
Take ==
  /\ query = NoQuery
  /\ \E p \in Proc, op \in {"HELO", "GBYE", "VALID", "OTHER"}, t \in 0..MaxUsers :
        /\ life[p] # "new"
        /\ query' = [op |-> op, from |-> p, ticket |-> t]
  /\ UNCHANGED <<life, grants, answer>>

(* A licence is granted whenever one is unused, and only an unused one. *)
Grant ==
  /\ \E id \in Unused :
        /\ grants' = [t \in DOMAIN grants \cup {id} |->
                        IF t = id THEN query.from ELSE grants[t]]
        /\ answer' = [kind |-> "TICK", ticket |-> id]

Refuse ==
  /\ Unused = {}
  /\ answer' = [kind |-> "FULL", ticket |-> 0]
  /\ UNCHANGED grants

GiveBack ==
  /\ query.ticket \in DOMAIN grants
  /\ grants' = Restrict(grants, DOMAIN grants \ {query.ticket})
  /\ answer' = [kind |-> "THNX", ticket |-> 0]

Confirm ==
  /\ query.ticket \in DOMAIN grants
  /\ PidOf[grants[query.ticket]] = PidOf[query.from]
  /\ answer' = [kind |-> "GOOD", ticket |-> 0]
  /\ UNCHANGED grants

Invalid ==
  /\ \/ query.ticket \notin DOMAIN grants
     \/ query.op = "VALID" /\ PidOf[grants[query.ticket]] # PidOf[query.from]
  /\ answer' = [kind |-> "INVALID", ticket |-> 0]
  /\ UNCHANGED grants

Unknown ==
  /\ answer' = [kind |-> "UNKNOWN", ticket |-> 0]
  /\ UNCHANGED grants

Serve ==
  /\ query # NoQuery
  /\ answer = NoAnswer
  /\ \/ query.op = "HELO" /\ (Grant \/ Refuse)
     \/ query.op = "GBYE" /\ (GiveBack \/ Invalid)
     \/ query.op = "VALID" /\ (Confirm \/ Invalid)
     \/ query.op = "OTHER" /\ Unknown
  /\ UNCHANGED <<life, query>>

Deliver ==
  /\ answer # NoAnswer
  /\ query' = NoQuery
  /\ answer' = NoAnswer
  /\ UNCHANGED <<life, grants>>

(* Only the dead lose a licence that nobody gave back. *)
TakeBack ==
  /\ \E S \in SUBSET DOMAIN grants :
        /\ \A t \in S : life[grants[t]] = "dead"
        /\ grants' = Restrict(grants, DOMAIN grants \ S)
  /\ UNCHANGED <<life, query, answer>>

(* The server process dies: it keeps nothing on disk. *)
Forget ==
  /\ grants' = << >>
  /\ query' = NoQuery
  /\ answer' = NoAnswer
  /\ UNCHANGED life

PoolNext ==
  \/ Begin \/ Die
  \/ Take \/ Serve \/ Deliver
  \/ TakeBack \/ Forget

PoolSpec == PoolInit /\ [][PoolNext]_poolVars
=============================================================================
