----------------------------- MODULE LicenseSystem -----------------------------
(***************************************************************************)
(* The licence server and its clients over the loopback network of lab5.   *)
(* Requests queue up in the server's socket, responses in the client's;    *)
(* the server may crash and come back with an empty table, a client may be *)
(* killed at any moment, and an answer may come after the client's receive *)
(* timeout has expired.                                                    *)
(***************************************************************************)
EXTENDS LicenseClient

Init == ServerInit /\ ClientInit

(* sendto of the server: the response joins the client's inbox unless the  *)
(* client is gone or its buffer is full.                                   *)
Respond ==
  /\ Reply
  /\ LET p == request.from
     IN  inbox' = IF life[p] = "alive" /\ Len(inbox[p]) < InboxCap
                    THEN [inbox EXCEPT ![p] = Append(@, response)]
                    ELSE inbox
  /\ UNCHANGED <<at, doing, flagVars, finite, endless, late>>

ServerStep ==
  \/ (Recv \/ Handle \/ Reclaim) /\ UNCHANGED clientVars
  \/ Respond

Fault ==
  \/ (ServerCrash \/ ServerStart) /\ UNCHANGED clientVars
  \/ \E p \in Proc : Die(p)

Next ==
  \/ ServerStep
  \/ Fault
  \/ \E p \in Proc : Start(p) \/ PressQ(p) \/ MainStep(p) \/ HbStep(p)

(* The threads of the server and of the clients keep running while their   *)
(* process does.  The reclaim thread sleeps for ten seconds outside g_cs   *)
(* between two scans, so a main thread that waits for g_cs gets it: strong *)
(* fairness of Handle.  Nobody has to start, to quit, to crash or to       *)
(* restart the server.                                                     *)
Fairness ==
  /\ WF_systemVars(Recv /\ UNCHANGED clientVars)
  /\ SF_systemVars(Handle /\ UNCHANGED clientVars)
  /\ WF_systemVars(Respond)
  /\ WF_systemVars(Reclaim /\ UNCHANGED clientVars)
  /\ \A p \in Proc : WF_systemVars(MainStep(p)) /\ WF_systemVars(HbStep(p))

Spec == Init /\ [][Next]_systemVars
FairSpec == Spec /\ Fairness

-----------------------------------------------------------------------------
(* Properties.                                                             *)

ClientTypeOK ==
  /\ at \in [Proc -> [main : MainAt, hb : HbAt]]
  /\ doing \in [Proc -> [main : {"NONE", "HELO", "GBYE"}, hb : {"NONE", "HELO", "VALID"}]]
  /\ ticket \in [Proc -> 0..MaxUsers] /\ fresh \in [Proc -> 0..MaxUsers]
  /\ hasTicket \in [Proc -> BOOLEAN]
  /\ finite \in [Proc -> BOOLEAN]
  /\ endless \in [Proc -> SUBSET Thread]
  /\ inbox \in [Proc -> Seq(Response)]
  /\ \A p \in Proc : Len(inbox[p]) <= InboxCap
  /\ late \in 0..MaxLate

(* Every variable of the clients has its type. *)
SystemTypeOK == TypeOK /\ ClientTypeOK

(* Only two threads that are in SendRequest at once can leave one of them  *)
(* in a recvfrom without a timeout, and the heartbeat thread only after    *)
(* 'q': a program that runs always gets an answer or a timeout.            *)
RunningNeverBlocks == \A p \in Proc : Running(p) => endless[p] = {}

(* A running program has one ticket as long as no answer came after its    *)
(* timeout: a heartbeat that fails asks for a new ticket only when the old *)
(* one is gone from the table (client.cpp:102-111).  (Once 'q' is pressed  *)
(* the two threads may take each other's answers; and a heartbeat dropped  *)
(* at the server's full socket buffer is as bad as a late answer: QueueCap *)
(* must leave room for it.)                                                *)
TicketsOf(p) == {t \in DOMAIN tickets : tickets[t] = p}
OneTicketIfOnTime ==
  late = 0 => \A p \in Proc : Running(p) => Cardinality(TicketsOf(p)) <= 1

(* A running program loses its registration only to a crash of the server  *)
(* or to a GBYE that another instance sent: never by its own doing, never  *)
(* by the reclaim thread.                                                  *)
RunningKeepsTicket ==
  [][\A p \in Proc, t \in DOMAIN tickets :
       Running(p) /\ tickets[t] = p /\ Loses(t) =>
         \/ ~up'
         \/ request.op = "GBYE" /\ request.from # p]_systemVars

(* A program that believes it is licensed and is not finds out: the        *)
(* heartbeat registers it again or drops the belief, whatever stale        *)
(* answers are still under way (client.cpp:1 "handles a restart of the     *)
(* server correctly").                                                     *)
LostTicketNoticed ==
  \A p \in Proc :
    (Running(p) /\ hasTicket[p] /\ ~Registered(p))
      ~> (~Running(p) \/ ~hasTicket[p] \/ Registered(p))

(* A program that was told to quit exits, whatever becomes of its GBYE and *)
(* whichever thread gets the answer.  Only a crash of the server can keep  *)
(* it, in a recvfrom that began without a timeout because the heartbeat    *)
(* thread had just reset it.                                               *)
QuitExits ==
  \A p \in Proc :
    at[p].main = "quit" ~> (at[p].main = "off" \/ (crashes > 0 /\ "main" \in endless[p]))

(* client.cpp:1 claims that a restart of the server is handled correctly:  *)
(* the GBYE of a program gives back that program's ticket, not one that    *)
(* the restarted server has given to somebody else.                        *)
ByeReleasesOwnTicket ==
  [][\A t \in DOMAIN tickets :
       Loses(t) /\ mainPc = "handle" /\ mainPc' = "send" =>
         tickets[t] = request.from]_systemVars

(* client.cpp:104 says that a heartbeat without a GOOD means "ticket       *)
(* invalid or server down", so that asking again replaces the ticket: no   *)
(* running program has two (server.cpp:68 counts them as active users).    *)
OneTicketPerUser == \A p \in Proc : Running(p) => Cardinality(TicketsOf(p)) <= 1
=============================================================================
