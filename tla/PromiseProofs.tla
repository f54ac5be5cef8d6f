---------------------------- MODULE PromiseProofs ----------------------------
(***************************************************************************)
(* Client implements Fetch, for any number of world servers, of beats, any *)
(* size of the sequence byte and any environment; and what a fetch leaves  *)
(* behind, asks for and can read.                                          *)
(*                                                                         *)
(* The servers are entered one after the other because the connections    *)
(* that have ever been opened are always the first n, where n is the one   *)
(* in use or the one before the one that is being opened.                  *)
(***************************************************************************)
EXTENDS ClientProofs, FiniteSetTheorems

Opened(c) == link[c] # "idle"

Visited ==
    /\ main \in {"idle", "connecting"} => \A c \in Conns : ~Opened(c)
    /\ writer # 0 => \A c \in Conns : Opened(c) <=> c <= writer
    /\ reader \in {"closing", "opening"} => \A c \in Conns : Opened(c) <=> c < target

(* main has its verdict when the wait is over, and a list is from a world. *)
AfterWait == {"reaping", "leaving", "closing", "flushing", "done"}

Decided ==
    /\ main # "idle" => result # "none"
    /\ main \in AfterWait => outcome # "none"
    /\ (result = "list" \/ outcome = "list") => \E c \in Conns : World(c) /\ Opened(c)

(* The last socket is given up before fetch ends.                          *)
Left ==
    /\ main = "flushing" => writer = 0
    /\ main = "done" => writer = 0 \/ outcome = "crash"

PromiseInv == Visited /\ Decided /\ Left

Before == Inductive /\ OneConnection /\ PromiseInv
-----------------------------------------------------------------------------
(* The refinement mapping                                                  *)

LEMMA ThreeConns == {1, 2, 3} \subseteq Conns /\ \A c \in Conns : c \in Nat /\ c # 0
  BY ConnsAssumption DEF Conns

LEMMA ReachedIs ==
    ASSUME NEW n \in 0 .. MaxConns, \A c \in Conns : Opened(c) <=> c <= n
    PROVE  Reached = IF n >= 3 THEN 3 ELSE n
<1>1. (\E c \in Conns : World(c) /\ link[c] # "idle") <=> n >= 3
  BY ThreeConns DEF World, Opened, Conns
<1>2. (link[2] # "idle" <=> 2 <= n) /\ (link[1] # "idle" <=> 1 <= n)
  BY ThreeConns DEF Opened
<1>3. n \in Nat
  BY ConnsAssumption
<1> QED
  BY <1>1, <1>2, <1>3 DEF Reached

LEMMA ReachedSame ==
    ASSUME \A c \in Conns : Opened(c)' <=> Opened(c)
    PROVE  Reached' = Reached
<1>1. (\E c \in Conns : World(c) /\ link'[c] # "idle")
        <=> \E c \in Conns : World(c) /\ link[c] # "idle"
  BY DEF Opened
<1>2. (link'[2] # "idle" <=> link[2] # "idle") /\ (link'[1] # "idle" <=> link[1] # "idle")
  BY ThreeConns DEF Opened
<1> QED
  BY <1>1, <1>2 DEF Reached

(* A server has been left or is being left: the sockets in use are open.   *)
LEMMA WriterOpened ==
    ASSUME Before, writer # 0
    PROVE  writer \in Conns /\ Opened(writer)
<1>1. writer \in Conns
  BY DEF Before, Inductive, TypeOK, Conns
<1>2. writer <= writer
  BY <1>1, ThreeConns
<1> QED
  BY <1>1, <1>2 DEF Before, PromiseInv, Visited
-----------------------------------------------------------------------------
(* Steps Fetch does not see                                                *)

Unseen == UNCHANGED Promise!fetchVars

LEMMA UnseenStep ==
    ASSUME Before, writer' = writer, \A c \in Conns : Opened(c)' <=> Opened(c),
           main' = main \/ {main, main'} \cap {"idle", "connecting", "flushing", "done"} = {},
           main = "done" => outcome' = outcome,
           reader' \in {"closing", "opening"} =>
               reader \in {"closing", "opening"} /\ target' = target,
           result' = "none" => result = "none",
           main' \in AfterWait => outcome' # "none",
           result' = "list" \/ outcome' = "list" => \E c \in Conns : World(c) /\ Opened(c)
    PROVE  PromiseInv' /\ Unseen
<1> USE DEF Before, PromiseInv
<1>1. Visited'
  BY DEF Visited
<1>2. Decided'
  BY DEF Decided
<1>3. Left'
  BY DEF Left
<1>4. Reached' = Reached
  BY ReachedSame
<1>5. Unseen
  BY <1>4 DEF Unseen, Promise!fetchVars
<1> QED
  BY <1>1, <1>2, <1>3, <1>5

LEMMA MainUnseen ==
    ASSUME Before, \/ Timeout \/ InterruptWait \/ MainWake \/ Logout
                   \/ (Reap /\ ~ReapRaises(reader))
    PROVE  PromiseInv' /\ Unseen
<1>1. /\ UNCHANGED <<writer, link>>
      /\ main' = main \/ {main, main'} \cap {"idle", "connecting", "flushing", "done"} = {}
      /\ main = "done" => outcome' = outcome
      /\ reader' \in {"closing", "opening"} =>
           reader \in {"closing", "opening"} /\ target' = target
  BY DEF Timeout, InterruptWait, MainWake, Logout, Reap, objectVars, netVars
<1>2. \A c \in Conns : Opened(c)' <=> Opened(c)
  BY <1>1 DEF Opened
<1>3. /\ main \in {"waiting", "reaping", "leaving"} /\ result # "none"
      /\ result = "cancelled" => stop # "none"
      /\ main \in AfterWait => outcome # "none"
      /\ (result = "list" \/ outcome = "list") => \E c \in Conns : World(c) /\ Opened(c)
  BY DEF Before, PromiseInv, Decided, Inductive, Tasks, Timeout, InterruptWait, MainWake,
         Logout, Reap
<1>4. result' # "none" /\ (result' = "list" => result = "list")
  BY <1>3 DEF Timeout, InterruptWait, MainWake, Logout, Reap, Cancelled
<1>5. /\ main' \in AfterWait => outcome' # "none"
      /\ outcome' = "list" => outcome = "list" \/ result = "list"
  <2>1. CASE MainWake
    BY <1>3, <2>1 DEF MainWake, Verdict, Before, Inductive, TypeOK
  <2>2. CASE Timeout \/ InterruptWait \/ Logout
    BY <1>3, <2>2 DEF Timeout, InterruptWait, Logout, AfterWait
  <2>3. CASE Reap /\ ~ReapRaises(reader)
    BY <1>3, <2>3 DEF Reap, ReapRaises, AfterWait
  <2> QED
    BY <2>1, <2>2, <2>3
<1> QED
  BY <1>1, <1>2, <1>3, <1>4, <1>5, UnseenStep

(* The reader settles the future with a list only on a world connection.   *)
LEMMA ReaderUnseen ==
    ASSUME Before, \/ HandleAccept \/ HandleConnectionInfo \/ HandleServerTable
                   \/ HandleRaisesValueError \/ HandleCrashes \/ HandleLoginMessage
                   \/ HandleUserId \/ HandleChallenge \/ HandleWorldList \/ IgnoreFrame
                   \/ ReadBadFrame \/ ReadClosed \/ OldSocketClosed \/ RedirectRefused
                   \/ RequestWorldList \/ (HandleRedirect /\ result # "pending")
    PROVE  PromiseInv' /\ Unseen
<1>1. UNCHANGED <<writer, link, main, outcome>>
  BY DEF HandleAccept, HandleConnectionInfo, HandleServerTable, HandleRaisesValueError,
         HandleCrashes, Crashes, HandleLoginMessage, HandleUserId, HandleChallenge, HandleWorldList,
         IgnoreFrame, ReadBadFrame, ReadClosed, OldSocketClosed, RedirectRefused,
         RequestWorldList, HandleRedirect, mainVars, objectVars, netVars
<1>2. reader' \in {"closing", "opening"} => reader \in {"closing", "opening"} /\ target' = target
  BY DEF HandleAccept, HandleConnectionInfo, HandleServerTable, HandleRaisesValueError,
         HandleCrashes, Crashes, HandleLoginMessage, HandleUserId, HandleChallenge, HandleWorldList,
         IgnoreFrame, ReadBadFrame, ReadClosed, OldSocketClosed, RedirectRefused,
         RequestWorldList, HandleRedirect, ReadOn, Ends
<1>3. result' = result \/ result' \in {"login", "oserror", "valueerror"}
        \/ (HandleWorldList /\ result' = "list")
  BY DEF HandleAccept, HandleConnectionInfo, HandleServerTable, HandleRaisesValueError,
         HandleCrashes, Crashes, HandleLoginMessage, HandleUserId, HandleChallenge, HandleWorldList,
         IgnoreFrame, ReadBadFrame, ReadClosed, OldSocketClosed, RedirectRefused,
         RequestWorldList, HandleRedirect, ReadOn, Ends, Settled
<1>4. \A c \in Conns : Opened(c)' <=> Opened(c)
  BY <1>1 DEF Opened
<1>5. HandleWorldList => \E c \in Conns : World(c) /\ Opened(c)
  <2> SUFFICES ASSUME HandleWorldList PROVE \E c \in Conns : World(c) /\ Opened(c)
    OBVIOUS
  <2>1. Reading({"WORLD_LIST"})
    BY DEF HandleWorldList
  <2>2. writer \in Conns /\ writer # 0 /\ "WORLD_LIST" \in ServerSays(writer)
    BY <2>1, FrontFrame DEF Before
  <2>3. World(writer)
    BY <2>2, ThreeConns DEF ServerSays, World
  <2> QED
    BY <2>2, <2>3, WriterOpened
<1>6. Decided
  BY DEF Before, PromiseInv
<1>7. /\ result' = "none" => result = "none"
      /\ main' \in AfterWait => outcome' # "none"
      /\ result' = "list" \/ outcome' = "list" => \E c \in Conns : World(c) /\ Opened(c)
  BY <1>1, <1>3, <1>5, <1>6 DEF Decided
<1> QED
  BY <1>1, <1>2, <1>4, <1>7, UnseenStep

LEMMA ServerUnseen ==
    ASSUME Before, NEW c \in Conns, Server(c)
    PROVE  PromiseInv' /\ Unseen
<1>1. UNCHANGED <<writer, main, outcome, reader, target, result>>
  BY DEF Server, React, Challenge, Handoff, Malformed, ServerClose, clientVars, mainVars
<1>2. link' = link \/ (link[c] = "open" /\ link' = [link EXCEPT ![c] = "cut"])
  BY DEF Server, React, Challenge, Handoff, Malformed, ServerClose
<1>3. \A d \in Conns : Opened(d)' <=> Opened(d)
  BY <1>2 DEF Opened, Before, Inductive, TypeOK
<1>4. /\ main \in AfterWait => outcome # "none"
      /\ result = "list" \/ outcome = "list" => \E d \in Conns : World(d) /\ Opened(d)
  BY DEF Before, PromiseInv, Decided
<1>5. /\ main' = main /\ outcome' = outcome /\ reader' = reader /\ target' = target
      /\ result' = result /\ writer' = writer
  BY <1>1
<1> QED
  BY <1>3, <1>4, <1>5, UnseenStep
-----------------------------------------------------------------------------
(* The steps of Fetch                                                      *)

LEMMA BeginIs == Before /\ FetchStart => PromiseInv' /\ Promise!Begin
<1> SUFFICES ASSUME Before, FetchStart PROVE PromiseInv' /\ Promise!Begin
  OBVIOUS
<1>1. /\ main = "idle" /\ main' = "connecting" /\ result' = "pending"
      /\ UNCHANGED <<writer, link, outcome, reader, target>>
  BY DEF FetchStart, netVars
<1>2. \A c \in Conns : Opened(c)' <=> Opened(c)
  BY <1>1 DEF Opened
<1>3. Reached' = Reached
  BY <1>2, ReachedSame
<1>4. PromiseInv'
  BY <1>1, <1>2 DEF Before, PromiseInv, Visited, Decided, Left, AfterWait
<1> QED
  BY <1>1, <1>3, <1>4 DEF Promise!Begin

(* A connection is opened: c, when those before it have been.              *)
LEMMA EnterIs ==
    ASSUME Before, NEW c \in Conns, \A d \in Conns : Opened(d) <=> d < c,
           writer = 0, writer' = c, link' = [link EXCEPT ![c] = "open"],
           main' = "waiting", main \in {"connecting", "waiting"}, reader' = "reading",
           UNCHANGED <<outcome, result>>
    PROVE  PromiseInv' /\ \E i \in 1 .. 3 : Promise!Enter(i)
<1>1. \A d \in Conns : Opened(d)' <=> d <= c
  <2>1. \A d \in Conns : d <= c <=> d < c \/ d = c
    BY ThreeConns
  <2>2. link'[c] = "open" /\ \A d \in Conns \ {c} : link'[d] = link[d]
    BY DEF Before, Inductive, TypeOK
  <2> QED
    BY <2>1, <2>2 DEF Opened
<1>2. PromiseInv'
  <2>1. Visited'
    BY <1>1 DEF Visited
  <2>2. Decided'
    BY <1>1, ThreeConns DEF Before, PromiseInv, Decided, AfterWait
  <2>3. Left'
    BY DEF Left
  <2> QED
    BY <2>1, <2>2, <2>3 DEF PromiseInv
<1>3. c \in Nat /\ c >= 1 /\ c <= MaxConns /\ MaxConns \in Nat
  BY ConnsAssumption DEF Conns
<1>4. Reached = IF c - 1 >= 3 THEN 3 ELSE c - 1
  <2>1. c - 1 \in 0 .. MaxConns
    BY <1>3
  <2>2. \A d \in Conns : Opened(d) <=> d <= c - 1
    BY <1>3, ThreeConns
  <2> QED
    BY <2>1, <2>2, ReachedIs
<1>5. Reached' = IF c >= 3 THEN 3 ELSE c
  <2>1. (\E d \in Conns : World(d) /\ link'[d] # "idle") <=> c >= 3
    BY <1>1, <1>3, ThreeConns DEF World, Opened, Conns
  <2>2. (link'[2] # "idle" <=> 2 <= c) /\ (link'[1] # "idle" <=> 1 <= c)
    BY <1>1, ThreeConns DEF Opened
  <2> QED
    BY <1>3, <2>1, <2>2 DEF Reached
<1> DEFINE i == IF c >= 3 THEN 3 ELSE c
<1>6. i \in 1 .. 3 /\ (i = Reached + 1 \/ (i = 3 /\ Reached = 3))
  BY <1>3, <1>4
<1>7. Promise!Places[i] = IF World(c) THEN "world" ELSE IF c = 2 THEN "login" ELSE "lobby"
  BY <1>3 DEF Promise!Places, World
<1>8. Promise!Enter(i)
  BY <1>3, <1>5, <1>6, <1>7 DEF Promise!Enter
<1> QED
  BY <1>2, <1>6, <1>8

LEMMA ConnectedIs == Before /\ Connected => PromiseInv' /\ \E i \in 1 .. 3 : Promise!Enter(i)
<1> SUFFICES ASSUME Before, Connected
             PROVE  PromiseInv' /\ \E i \in 1 .. 3 : Promise!Enter(i)
  OBVIOUS
<1>1. /\ main = "connecting" /\ main' = "waiting" /\ writer' = 1 /\ reader' = "reading"
      /\ link' = [link EXCEPT ![1] = "open"] /\ UNCHANGED <<outcome, result>>
  BY DEF Connected
<1>2. writer = 0 /\ \A d \in Conns : ~Opened(d)
  BY <1>1 DEF Before, Inductive, Tasks, PromiseInv, Visited
<1>3. 1 \in Conns /\ \A d \in Conns : ~(d < 1)
  BY ThreeConns
<1> QED
  BY <1>1, <1>2, <1>3, EnterIs

LEMMA RedirectedIs ==
    Before /\ RedirectConnected => PromiseInv' /\ \E i \in 1 .. 3 : Promise!Enter(i)
<1> SUFFICES ASSUME Before, RedirectConnected
             PROVE  PromiseInv' /\ \E i \in 1 .. 3 : Promise!Enter(i)
  OBVIOUS
<1>1. /\ reader = "opening" /\ main = "waiting" /\ main' = "waiting" /\ writer' = target
      /\ reader' = "reading" /\ link' = [link EXCEPT ![target] = "open"]
      /\ UNCHANGED <<outcome, result>>
  BY DEF RedirectConnected, ReaderRuns, mainVars
<1>2. writer = 0 /\ target \in Conns /\ \A d \in Conns : Opened(d) <=> d < target
  BY <1>1 DEF Before, Inductive, TypeOK, Tasks, Conns, PromiseInv, Visited
<1> QED
  BY <1>1, <1>2, EnterIs

(* The connection in use is given up.                                      *)
LEMMA LeaveIs ==
    ASSUME Before, writer # 0, writer' = 0, NEW how \in {"moved", "closed"},
           link' = [link EXCEPT ![writer] = how],
           {main, main'} \cap {"idle", "connecting", "done"} = {},
           reader' \in {"closing", "opening"} => target' = writer + 1,
           main' \in AfterWait => main \in AfterWait,
           UNCHANGED <<outcome, result>>
    PROVE  PromiseInv' /\ Promise!Leave
<1>1. writer \in Conns /\ Opened(writer) /\ \A c \in Conns : Opened(c) <=> c <= writer
  BY WriterOpened DEF Before, PromiseInv, Visited
<1>2. \A c \in Conns : Opened(c)' <=> Opened(c)
  BY <1>1 DEF Opened, Before, Inductive, TypeOK
<1>3. Visited'
  <2>1. \A c \in Conns : c < writer + 1 <=> c <= writer
    BY <1>1, ThreeConns
  <2>2. main' \notin {"idle", "connecting"}
    OBVIOUS
  <2> QED
    BY <1>1, <1>2, <2>1, <2>2 DEF Visited
<1>4. Decided' /\ Left'
  BY <1>2 DEF Before, PromiseInv, Decided, Left
<1>5. Reached' = Reached
  BY <1>2, ReachedSame
<1>6. Promise!Leave
  BY <1>5 DEF Promise!Leave
<1> QED
  BY <1>3, <1>4, <1>6 DEF PromiseInv

LEMMA RedirectIs ==
    Before /\ HandleRedirect /\ result = "pending" => PromiseInv' /\ Promise!Leave
<1> SUFFICES ASSUME Before, HandleRedirect, result = "pending"
             PROVE  PromiseInv' /\ Promise!Leave
  OBVIOUS
<1>1. /\ Reading({"REDIRECT"}) /\ writer' = 0 /\ link' = [link EXCEPT ![writer] = "moved"]
      /\ target' = writer + 1 /\ UNCHANGED <<main, outcome, result>>
  BY DEF HandleRedirect, SocketClosed, mainVars
<1>2. writer # 0 /\ main = "waiting"
  BY <1>1, FrontFrame DEF Before
<1> QED
  BY <1>1, <1>2, LeaveIs

LEMMA CloseLeaves == Before /\ Close /\ writer # 0 => PromiseInv' /\ Promise!Leave
<1> SUFFICES ASSUME Before, Close, writer # 0 PROVE PromiseInv' /\ Promise!Leave
  OBVIOUS
<1>1. /\ main = "closing" /\ main' = "flushing" /\ writer' = 0
      /\ link' = [link EXCEPT ![writer] = "closed"] /\ UNCHANGED <<outcome, result, reader>>
  BY DEF Close, SocketClosed
<1>2. reader \notin {"closing", "opening"}
  BY <1>1 DEF Before, Inductive, Tasks
<1> QED
  BY <1>1, <1>2, LeaveIs DEF AfterWait

(* fetch returns or raises.                                                *)
LEMMA EndIs ==
    ASSUME Before, main \notin {"idle", "done"}, main' = "done",
           UNCHANGED <<writer, link>>, result' = result, outcome' # "none",
           outcome' \in {"none", "list"} \cup Promise!Failures,
           outcome' = "list" => outcome = "list",
           writer = 0 \/ outcome' = "crash",
           reader' \in {"closing", "opening"} =>
               reader \in {"closing", "opening"} /\ target' = target
    PROVE  PromiseInv' /\ \E v \in Promise!Failures \cup {"list"} : Promise!End(v)
<1>1. \A c \in Conns : Opened(c)' <=> Opened(c)
  BY DEF Opened
<1>2. Reached' = Reached
  BY <1>1, ReachedSame
<1>3. PromiseInv'
  BY <1>1 DEF Before, PromiseInv, Visited, Decided, Left, AfterWait
<1>4. outcome' = "list" => Reached = 3
  BY DEF Before, PromiseInv, Decided, Reached, Opened
<1>5. Promise!End(outcome')
  BY <1>2, <1>4 DEF Promise!End
<1> QED
  BY <1>3, <1>5

LEMMA EndSteps ==
    ASSUME Before, \/ ConnectFails \/ InterruptEarly \/ Finish
                   \/ (Reap /\ ReapRaises(reader)) \/ (Close /\ writer = 0)
    PROVE  PromiseInv' /\ \E v \in Promise!Failures \cup {"list"} : Promise!End(v)
<1>1. /\ main \notin {"idle", "done"} /\ main' = "done"
      /\ UNCHANGED <<writer, link, result, reader, target>>
  BY DEF ConnectFails, InterruptEarly, Finish, Reap, Close, netVars
<1>2. /\ outcome \in {"none", "list"} \cup Promise!Failures
      /\ main \in {"connecting", "flushing"} => writer = 0
      /\ main \in AfterWait => outcome # "none"
  BY DEF Before, Inductive, TypeOK, Tasks, PromiseInv, Left, Decided, Promise!Failures
<1>3. CASE ConnectFails
  BY <1>1, <1>2, <1>3, EndIs DEF ConnectFails, Promise!Failures
<1>4. CASE InterruptEarly
  BY <1>1, <1>2, <1>4, EndIs DEF InterruptEarly, Promise!Failures
<1>5. CASE Finish \/ (Close /\ writer = 0)
  <2>1. outcome' = outcome /\ main \in AfterWait /\ writer = 0
    BY <1>2, <1>5 DEF Finish, Close, AfterWait
  <2> QED
    BY <1>1, <1>2, <2>1, EndIs
<1>6. CASE Reap /\ ReapRaises(reader)
  BY <1>1, <1>2, <1>6, EndIs DEF Reap, ReapRaises, Promise!Failures
<1> QED
  BY <1>3, <1>4, <1>5, <1>6

LEMMA PromiseStep ==
    ASSUME Before, [Next]_vars
    PROVE  PromiseInv' /\ [Promise!FetchNext]_(Promise!fetchVars)
<1>1. CASE Main
  BY <1>1, BeginIs, MainUnseen, CloseLeaves, EndSteps DEF Main, Unseen, Promise!FetchNext
<1>2. CASE Opening \/ Timeout \/ Interrupt
  BY <1>2, ConnectedIs, MainUnseen, EndSteps DEF Opening, Interrupt, Unseen, Promise!FetchNext
<1>3. CASE Dispatch
  BY <1>3, ReaderUnseen, RedirectIs DEF Dispatch, Unseen, Promise!FetchNext
<1>4. CASE Follow \/ RequestWorldList
  BY <1>4, ReaderUnseen, RedirectedIs DEF Follow, Unseen, Promise!FetchNext
<1>5. CASE \E c \in Conns : Server(c)
  BY <1>5, ServerUnseen DEF Unseen
<1>6. CASE UNCHANGED vars
  <2>1. UNCHANGED <<main, outcome, link, result, reader, target, writer>>
    BY <1>6 DEF vars, mainVars, netVars
  <2>2. \A c \in Conns : Opened(c)' <=> Opened(c)
    BY <2>1 DEF Opened
  <2> QED
    BY <2>1, <2>2, UnseenStep DEF Unseen, Before, PromiseInv, Decided
<1> QED
  BY <1>1, <1>2, <1>3, <1>4, <1>5, <1>6 DEF Next

LEMMA PromiseInitInv == Init => PromiseInv /\ Promise!FetchInit
<1> SUFFICES ASSUME Init PROVE PromiseInv /\ Promise!FetchInit
  OBVIOUS
<1>1. \A c \in Conns : ~Opened(c)
  BY DEF Init, Opened
<1>2. PromiseInv
  BY <1>1 DEF Init, PromiseInv, Visited, Decided, Left, AfterWait
<1>3. Reached = 0
  BY <1>1, ThreeConns DEF Reached, Opened
<1> QED
  BY <1>2, <1>3 DEF Init, Promise!FetchInit

LEMMA AlwaysBefore == Spec => []Before
<1>1. Before /\ [Next]_vars => PromiseInv'
  BY PromiseStep
<1>2. Init => PromiseInv
  BY PromiseInitInv
<1> QED
  BY <1>1, <1>2, InductiveHolds, OneConnectionAtATime, PTL DEF Spec, Before

(* Client implements Fetch: however many worlds there are, whatever fails  *)
(* and whenever it is cancelled, one call of fetch enters the servers in   *)
(* order, leaves the one it is on, and then has one verdict; a list only   *)
(* from a world.                                                           *)
THEOREM PromiseKept == Spec => KeepsPromise
<1>1. Before /\ [Next]_vars => [Promise!FetchNext]_(Promise!fetchVars)
  BY PromiseStep
<1>2. Init => Promise!FetchInit
  BY PromiseInitInv
<1> QED
  BY <1>1, <1>2, AlwaysBefore, PTL DEF Spec, KeepsPromise, Promise!FetchSpec

(* No socket is left open by a fetch that is over, unless its reader died  *)
(* of an exception the finally block of fetch does not expect.             *)
THEOREM NoSocketEverLeft == Spec => []NoSocketLeft
<1>1. Before => NoSocketLeft
  BY ThreeConns DEF Before, PromiseInv, Left, OneConnection, NoSocketLeft
<1> QED
  BY <1>1, AlwaysBefore, PTL
-----------------------------------------------------------------------------
(* What is asked once.  A write adds packets of one kind; only the         *)
(* requester adds a list request, and only the greeting of the login       *)
(* server, its third packet, adds a login.                                 *)

Request == "WORLD_LIST_REQUEST"

Writes(ops) ==
    \A c \in Conns : \A i \in DOMAIN wire'[c] :
        \/ i \in DOMAIN wire[c] /\ wire'[c][i] = wire[c][i]
        \/ wire'[c][i].op \in ops

NoRequest == \A c \in Conns : \A i \in DOMAIN wire[c] : wire[c][i].op # Request

OneRequest ==
    \A c, d \in Conns : \A i \in DOMAIN wire[c], j \in DOMAIN wire[d] :
        wire[c][i].op = Request /\ wire[d][j].op = Request => c = d /\ i = j

LoginThird == \A i \in DOMAIN wire[2] : wire[2][i].op = "LOGIN" => i = 3

OnceInv ==
    /\ ~requested => requester = "none"
    /\ requester \in {"none", "sleeping"} => NoRequest
    /\ OneRequest /\ LoginThird

LEMMA SendWrites ==
    ASSUME Inductive, NEW op \in ClientOps, NEW cr \in Ciphers, Send(op, cr)
    PROVE  Writes({op})
<1>1. CASE writer = 0
  BY <1>1 DEF Send, Writes
<1>2. CASE writer # 0
  <2>1. writer \in Conns
    BY <1>2 DEF Inductive, TypeOK, Conns
  <2>2. /\ wire'[writer] = Append(wire[writer], Packet(op, cr, sequence))
        /\ \A c \in Conns : c # writer => wire'[c] = wire[c]
    BY <2>1, SendEffect DEF Inductive, TypeOK
  <2>3. wire[writer] \in Seq(ClientPackets) /\ Packet(op, cr, sequence).op = op
    BY <2>1 DEF Inductive, TypeOK, Packet
  <2>4. \A i \in DOMAIN wire'[writer] :
           \/ i \in DOMAIN wire[writer] /\ wire'[writer][i] = wire[writer][i]
           \/ wire'[writer][i] = Packet(op, cr, sequence)
    BY <2>2, <2>3
  <2> QED
    BY <2>2, <2>3, <2>4 DEF Writes
<1> QED
  BY <1>1, <1>2

LEMMA GreetingWrites ==
    ASSUME Inductive, RedirectConnected
    PROVE  Writes({"CLIENT_REDIRECTED", "HOMEPAGE_REQUEST", "LOGIN"}) /\ (LoginThird => LoginThird')
<1> DEFINE greeting == Greeting(state, crypto)
<1>1. /\ target \in Conns /\ target >= 2 /\ crypto \in Ciphers
      /\ wire' = [wire EXCEPT ![target] = greeting]
  BY DEF Inductive, Tasks, TypeOK, Conns, RedirectConnected
<1>2. wire'[target] = greeting /\ \A c \in Conns \ {target} : wire'[c] = wire[c]
  BY <1>1 DEF Inductive, TypeOK
<1>3. /\ greeting \in Seq(ClientPackets)
      /\ greeting[1].op = "CLIENT_REDIRECTED"
      /\ state = "LOGIN" => /\ Len(greeting) = 3 /\ greeting[2].op = "HOMEPAGE_REQUEST"
                            /\ greeting[3].op = "LOGIN"
      /\ state # "LOGIN" => Len(greeting) = 1
  <2>1. \A op, sq : Packet(op, crypto, sq).op = op
    BY DEF Packet
  <2>2. /\ greeting \in Seq(ClientPackets)
        /\ greeting[1] = Packet("CLIENT_REDIRECTED", crypto, 0)
        /\ state = "LOGIN" => /\ Len(greeting) = 3
                              /\ greeting[2] = Packet("HOMEPAGE_REQUEST", crypto, 0)
                              /\ greeting[3] = Packet("LOGIN", crypto, 1)
        /\ state # "LOGIN" => Len(greeting) = 1
    BY <1>1, GreetingIs
  <2> HIDE DEF greeting
  <2> QED
    BY <2>1, <2>2
<1> HIDE DEF greeting
<1>4. DOMAIN greeting = 1 .. Len(greeting) /\ Len(greeting) \in {1, 3}
  BY <1>3
<1>5. \A i \in DOMAIN greeting :
         /\ greeting[i].op \in {"CLIENT_REDIRECTED", "HOMEPAGE_REQUEST", "LOGIN"}
         /\ greeting[i].op = "LOGIN" => i = 3
  <2>1. DOMAIN greeting \subseteq {1, 2, 3} /\ (state # "LOGIN" => DOMAIN greeting = {1})
    BY <1>3, <1>4
  <2> QED
    BY <1>3, <2>1
<1> QED
  BY <1>2, <1>5, ThreeConns DEF Writes, LoginThird

(* Writes of anything else                                                 *)
LEMMA OtherWrites ==
    ASSUME OnceInv, NEW ops, Writes(ops), Request \notin ops, LoginThird',
           requester' = requester \/ (requester = "sleeping" /\ requester' = "cancelled")
             \/ (requester = "none" /\ requester' = "sleeping"),
           ~requested' => ~requested /\ requester' = "none"
    PROVE  OnceInv'
<1>1. \A c \in Conns : \A i \in DOMAIN wire'[c] :
         wire'[c][i].op = Request => i \in DOMAIN wire[c] /\ wire[c][i].op = Request
  BY DEF Writes
<1>2. NoRequest => NoRequest'
  BY <1>1 DEF NoRequest
<1>3. OneRequest'
  BY <1>1 DEF OnceInv, OneRequest
<1> QED
  BY <1>2, <1>3 DEF OnceInv

LEMMA LoginStays ==
    ASSUME LoginThird, NEW ops, Writes(ops), "LOGIN" \notin ops
    PROVE  LoginThird'
  BY ThreeConns DEF LoginThird, Writes

LEMMA WritesOne ==
    ASSUME Inductive,
           \/ HandleAccept \/ HandleConnectionInfo \/ HandleServerTable \/ HandleChallenge
           \/ Logout
    PROVE  \E op \in ClientOps \ {Request, "LOGIN"} :
               Writes({op}) /\ (op = "EXIT_REQUEST" => Logout)
<1>1. crypto \in Ciphers
  BY DEF Inductive, TypeOK
<1>2. \E op \in ClientOps \ {Request, "LOGIN"}, cr \in Ciphers :
         /\ Send(op, cr) \/ UNCHANGED wire
         /\ op = "EXIT_REQUEST" => Logout
  <2>1. CASE HandleAccept
    BY <1>1, <2>1 DEF HandleAccept, ClientOps, Request
  <2>2. CASE HandleConnectionInfo
    <3>1. Reading({"INFO"}) /\ crypto' = InfoCrypto(writer)
      BY <2>2 DEF HandleConnectionInfo
    <3>2. crypto' \in Ciphers
      BY <3>1, FrontFrame DEF InfoCrypto, Ciphers, Conns
    <3> QED
      BY <2>2, <3>2 DEF HandleConnectionInfo, ClientOps, Request
  <2>3. CASE HandleServerTable
    BY <1>1, <2>3 DEF HandleServerTable, ClientOps, Request
  <2>4. CASE HandleChallenge
    BY <1>1, <2>4 DEF HandleChallenge, Response, ClientOps, Request
  <2>5. CASE Logout
    BY <1>1, <2>5 DEF Logout, ClientOps, Request
  <2> QED
    BY <2>1, <2>2, <2>3, <2>4, <2>5
<1> QED
  BY <1>2, SendWrites DEF Writes

LEMMA ReaderWrites ==
    ASSUME Inductive, main # "leaving",
           HandleAccept \/ HandleConnectionInfo \/ HandleServerTable \/ HandleChallenge
    PROVE  Writes(ClientOps \ {"EXIT_REQUEST"})
<1>1. ~Logout
  BY DEF Logout
<1>2. PICK op \in ClientOps \ {"EXIT_REQUEST"} : Writes({op})
  BY <1>1, WritesOne
<1> QED
  BY <1>2 DEF Writes

LEMMA WriteOnce ==
    ASSUME Inductive, OnceInv,
           \/ HandleAccept \/ HandleConnectionInfo \/ HandleServerTable \/ HandleChallenge
           \/ Logout
    PROVE  OnceInv'
<1>1. UNCHANGED <<requester, requested>>
  BY DEF HandleAccept, HandleConnectionInfo, HandleServerTable, HandleChallenge, Logout, objectVars
<1>2. PICK op \in ClientOps \ {Request, "LOGIN"} : Writes({op})
  BY WritesOne
<1>3. LoginThird'
  BY <1>2, LoginStays DEF OnceInv
<1>4. ~requested' => ~requested /\ requester' = "none"
  BY <1>1 DEF OnceInv
<1> QED
  BY <1>1, <1>2, <1>3, <1>4, OtherWrites

(* The delayed request is written once, and then is not sleeping any more. *)
LEMMA RequestOnce ==
    ASSUME Inductive, OnceInv, RequestWorldList
    PROVE  OnceInv'
<1>1. /\ requester = "sleeping" /\ requester' = "done" /\ requested' = requested
      /\ Send(Request, crypto) /\ crypto \in Ciphers /\ Request \in ClientOps
  BY DEF RequestWorldList, objectVars, Inductive, TypeOK, Request, ClientOps
<1>2. NoRequest /\ requested
  BY <1>1 DEF OnceInv
<1>3. LoginThird'
  BY <1>1, SendWrites, LoginStays DEF OnceInv, Request
<1>4. OneRequest'
  <2>1. CASE writer = 0
    BY <1>1, <1>2, <2>1 DEF Send, OneRequest, NoRequest
  <2>2. CASE writer # 0
    <3>1. writer \in Conns
      BY <2>2 DEF Inductive, TypeOK, Conns
    <3>2. /\ wire'[writer] = Append(wire[writer], Packet(Request, crypto, sequence))
          /\ \A c \in Conns : c # writer => wire'[c] = wire[c]
      BY <1>1, <3>1, SendEffect DEF Inductive, TypeOK
    <3>3. wire[writer] \in Seq(ClientPackets)
      BY <3>1 DEF Inductive, TypeOK
    <3>4. \A i \in DOMAIN wire'[writer] :
             \/ i \in DOMAIN wire[writer] /\ wire'[writer][i] = wire[writer][i]
             \/ i = Len(wire[writer]) + 1
      BY <3>2, <3>3
    <3>5. \A c \in Conns : \A i \in DOMAIN wire'[c] :
             wire'[c][i].op = Request => c = writer /\ i = Len(wire[writer]) + 1
      BY <1>2, <3>2, <3>4 DEF NoRequest
    <3> QED
      BY <3>5 DEF OneRequest
  <2> QED
    BY <2>1, <2>2
<1> QED
  BY <1>1, <1>2, <1>3, <1>4 DEF OnceInv

(* The other steps leave the wire as it is.                                *)
LEMMA SilentOnce ==
    ASSUME OnceInv, UNCHANGED wire,
           requester' = requester \/ (requester = "sleeping" /\ requester' = "cancelled")
             \/ (requester = "none" /\ requester' = "sleeping"),
           ~requested' => ~requested /\ requester' = "none"
    PROVE  OnceInv'
<1>1. Writes({}) /\ LoginThird'
  BY DEF Writes, OnceInv, LoginThird
<1> QED
  BY <1>1, OtherWrites

LEMMA OnceStep ==
    ASSUME Inductive, OnceInv, [Next]_vars
    PROVE  OnceInv'
<1> USE DEF mainVars, objectVars, netVars
<1>1. requested \in BOOLEAN /\ requester \in {"none", "sleeping", "done", "cancelled"}
      /\ (~requested => requester = "none")
  BY DEF Inductive, TypeOK, OnceInv
<1>2. CASE Main \/ Opening \/ Timeout \/ Interrupt
  <2>1. CASE Logout
    BY <2>1, WriteOnce
  <2>2. CASE MainWake
    BY <1>1, <2>2, SilentOnce DEF MainWake, RequestCancelled
  <2>3. CASE \/ FetchStart \/ Reap \/ Close \/ Finish \/ Opening \/ Timeout \/ Interrupt
    <3>1. UNCHANGED <<wire, requester, requested>>
      BY <2>3 DEF Opening, Interrupt, FetchStart, Reap, Close, Finish, Connected, ConnectFails,
         Timeout, InterruptEarly, InterruptWait
    <3> QED
      BY <1>1, <3>1, SilentOnce
  <2> QED
    BY <1>2, <2>1, <2>2, <2>3 DEF Main
<1>3. CASE Dispatch
  <2>1. CASE HandleAccept \/ HandleConnectionInfo \/ HandleServerTable \/ HandleChallenge
    BY <2>1, WriteOnce
  <2>2. CASE HandleUserId
    BY <1>1, <2>2, SilentOnce DEF HandleUserId, MayRequest
  <2>3. CASE \/ HandleRaisesValueError \/ HandleCrashes \/ HandleRedirect \/ HandleLoginMessage
             \/ HandleWorldList \/ IgnoreFrame \/ ReadBadFrame \/ ReadClosed
    <3>1. UNCHANGED <<wire, requester, requested>>
      BY <2>3 DEF HandleRaisesValueError, HandleCrashes, Crashes, HandleRedirect, HandleLoginMessage,
         HandleWorldList, IgnoreFrame, ReadBadFrame, ReadClosed
    <3> QED
      BY <1>1, <3>1, SilentOnce
  <2> QED
    BY <1>3, <2>1, <2>2, <2>3 DEF Dispatch
<1>4. CASE Follow
  <2>1. CASE RedirectConnected
    <3>1. UNCHANGED <<requester, requested>>
      BY <2>1 DEF RedirectConnected
    <3>2. LoginThird' /\ Writes({"CLIENT_REDIRECTED", "HOMEPAGE_REQUEST", "LOGIN"})
      BY <2>1, GreetingWrites DEF OnceInv
    <3> QED
      BY <1>1, <3>1, <3>2, OtherWrites DEF Request
  <2>2. CASE OldSocketClosed \/ RedirectRefused
    <3>1. UNCHANGED <<wire, requester, requested>>
      BY <2>2 DEF OldSocketClosed, RedirectRefused
    <3> QED
      BY <1>1, <3>1, SilentOnce
  <2> QED
    BY <1>4, <2>1, <2>2 DEF Follow
<1>5. CASE RequestWorldList
  BY <1>5, RequestOnce
<1>6. CASE \E c \in Conns : Server(c)
  <2>1. UNCHANGED <<wire, requester, requested>>
    BY <1>6 DEF Server, React, Challenge, Handoff, Malformed, ServerClose, clientVars
  <2> QED
    BY <1>1, <2>1, SilentOnce
<1>7. CASE UNCHANGED vars
  <2>1. UNCHANGED <<wire, requester, requested>>
    BY <1>7 DEF vars
  <2> QED
    BY <1>1, <2>1, SilentOnce
<1> QED
  BY <1>2, <1>3, <1>4, <1>5, <1>6, <1>7 DEF Next

LEMMA AlwaysOnce == Spec => []OnceInv
<1>1. Init => OnceInv
  BY ThreeConns DEF Init, OnceInv, NoRequest, OneRequest, LoginThird
<1>2. Inductive /\ OnceInv /\ [Next]_vars => OnceInv'
  BY OnceStep
<1> QED
  BY <1>1, <1>2, InductiveHolds, PTL DEF Spec

LEMMA AtMostOne ==
    ASSUME NEW S, \A p, q \in S : p = q
    PROVE  Cardinality(S) <= 1
<1>1. CASE S = {}
  BY <1>1, FS_EmptySet
<1>2. CASE S # {}
  <2>1. PICK p : S = {p}
    BY <1>2
  <2>2. Cardinality({p}) = 1
    BY FS_Singleton
  <2>3. Cardinality(S) = 1
    BY <2>1, <2>2
  <2> QED
    BY <2>3
<1> QED
  BY <1>1, <1>2

LEMMA SentIs ==
    ASSUME NEW op
    PROVE  \A p \in Sent(op) : \E c \in Conns : \E i \in DOMAIN wire[c] :
               p = <<c, i>> /\ wire[c][i].op = op
  BY DEF Sent

(* However many UserId packets and worlds there are in a run, the list is  *)
(* asked for once, and of a world: _requested is set before the sleep      *)
(* begins, and the connection can only be a later world when it ends.      *)
THEOREM ListAskedOnce == Spec => []AskedOnce
<1>1. Inductive /\ OnceInv => AskedOnce
  <2> SUFFICES ASSUME Inductive, OnceInv PROVE AskedOnce
    OBVIOUS
  <2>1. \A p, q \in Sent(Request) : p = q
    <3> SUFFICES ASSUME NEW p \in Sent(Request), NEW q \in Sent(Request) PROVE p = q
      OBVIOUS
    <3> PICK c \in Conns : \E i \in DOMAIN wire[c] : p = <<c, i>> /\ wire[c][i].op = Request
      BY SentIs
    <3>1. PICK i \in DOMAIN wire[c] : p = <<c, i>> /\ wire[c][i].op = Request
      OBVIOUS
    <3> PICK d \in Conns : \E j \in DOMAIN wire[d] : q = <<d, j>> /\ wire[d][j].op = Request
      BY SentIs
    <3>2. PICK j \in DOMAIN wire[d] : q = <<d, j>> /\ wire[d][j].op = Request
      OBVIOUS
    <3> QED
      BY <3>1, <3>2 DEF OnceInv, OneRequest
  <2>2. ASSUME NEW p \in Sent(Request) PROVE World(p[1])
    <3> PICK c \in Conns : \E i \in DOMAIN wire[c] : p = <<c, i>> /\ wire[c][i].op = Request
      BY SentIs
    <3>1. PICK i \in DOMAIN wire[c] : p = <<c, i>> /\ wire[c][i].op = Request
      OBVIOUS
    <3>2. Request \in ClientSays(c)
      BY <3>1 DEF Inductive, Placed
    <3>3. World(c)
      BY <3>2, ThreeConns DEF ClientSays, Request, World
    <3> QED
      BY <3>1, <3>3
  <2> QED
    BY <2>1, <2>2, AtMostOne DEF AskedOnce, Request
<1> QED
  BY <1>1, InductiveHolds, AlwaysOnce, PTL

(* The password is written once, and to the login server, whatever the     *)
(* servers' redirects lead to.                                             *)
THEOREM LoginSentOnce == Spec => []LoginOnce
<1>1. Inductive /\ OnceInv => LoginOnce
  <2> SUFFICES ASSUME Inductive, OnceInv PROVE LoginOnce
    OBVIOUS
  <2>1. ASSUME NEW p \in Sent("LOGIN") PROVE p = <<2, 3>>
    <3> PICK c \in Conns : \E i \in DOMAIN wire[c] : p = <<c, i>> /\ wire[c][i].op = "LOGIN"
      BY SentIs
    <3>1. PICK i \in DOMAIN wire[c] : p = <<c, i>> /\ wire[c][i].op = "LOGIN"
      OBVIOUS
    <3>2. "LOGIN" \in ClientSays(c)
      BY <3>1 DEF Inductive, Placed
    <3>3. c = 2
      BY <3>2 DEF ClientSays
    <3> QED
      BY <3>1, <3>3 DEF OnceInv, LoginThird
  <2>2. Cardinality(Sent("LOGIN")) <= 1
    BY <2>1, AtMostOne
  <2>3. <<2, 3>>[1] = 2
    OBVIOUS
  <2> QED
    BY <2>1, <2>2, <2>3 DEF LoginOnce
<1> QED
  BY <1>1, InductiveHolds, AlwaysOnce, PTL
-----------------------------------------------------------------------------
(* What the client can read.  Every frame on its way is as its server made *)
(* it; while the client still has the cipher of a new Crypto(), which no   *)
(* server uses, nothing encrypted is on its way.                           *)

FramesInv ==
    /\ \A c \in Conns : \A i \in DOMAIN inbox[c] : inbox[c][i] = Frame(c, inbox[c][i].op)
    /\ crypto = InitialCrypto => \A i \in DOMAIN inbox[1] : inbox[1][i].op # "GARBLED_TABLE"

(* A frame that was there, or is new and readable                          *)
Arrives(c, frame) ==
    \/ \E j \in DOMAIN inbox[c] : frame = inbox[c][j]
    \/ \E op \in ServerOps : /\ frame = Frame(c, op)
                             /\ op # "GARBLED_TABLE" \/ crypto # InitialCrypto

LEMMA FramesStep ==
    ASSUME FramesInv, \A c \in Conns : \A i \in DOMAIN inbox'[c] : Arrives(c, inbox'[c][i]),
           crypto' = InitialCrypto => crypto = InitialCrypto
    PROVE  FramesInv'
<1>1. \A c, op : Frame(c, op).op = op
  BY DEF Frame
<1>2. ASSUME NEW c \in Conns, NEW i \in DOMAIN inbox'[c]
      PROVE  inbox'[c][i] = Frame(c, inbox'[c][i].op)
  <2>1. CASE \E j \in DOMAIN inbox[c] : inbox'[c][i] = inbox[c][j]
    BY <2>1 DEF FramesInv
  <2>2. CASE \E op \in ServerOps : inbox'[c][i] = Frame(c, op)
    BY <1>1, <2>2
  <2> QED
    BY <2>1, <2>2 DEF Arrives
<1>3. ASSUME crypto' = InitialCrypto, NEW i \in DOMAIN inbox'[1]
      PROVE  inbox'[1][i].op # "GARBLED_TABLE"
  BY <1>1, <1>3, ThreeConns DEF FramesInv, Arrives
<1> QED
  BY <1>2, <1>3 DEF FramesInv, Frame

(* The reader                                                              *)
LEMMA ReaderFrames ==
    ASSUME Inductive, FramesInv, Dispatch \/ OldSocketClosed \/ RedirectRefused
    PROVE  FramesInv'
<1>1. Shrinks \/ inbox' = inbox
  <2>1. CASE \E ops : Reading(ops)
    BY <2>1, FrontFrame
  <2>2. CASE ReadBadFrame
    BY <2>2, BadFrameEffect
  <2>3. CASE ReadClosed \/ OldSocketClosed \/ RedirectRefused
    BY <2>3 DEF ReadClosed, OldSocketClosed, RedirectRefused, netVars
  <2> QED
    BY <2>1, <2>2, <2>3
       DEF Dispatch, HandleAccept, HandleConnectionInfo, HandleServerTable,
           HandleRaisesValueError, HandleCrashes, Crashes, HandleRedirect, HandleLoginMessage,
           HandleUserId, HandleChallenge, HandleWorldList, IgnoreFrame
<1>2. \A c \in Conns : \A i \in DOMAIN inbox'[c] : Arrives(c, inbox'[c][i])
  BY <1>1 DEF Shrinks, Arrives
<1>3. crypto' = InitialCrypto => crypto = InitialCrypto
  <2>1. CASE HandleConnectionInfo
    <3>1. Reading({"INFO"}) /\ crypto' = InfoCrypto(writer)
      BY <2>1 DEF HandleConnectionInfo
    <3>2. writer # 0
      BY <3>1, FrontFrame
    <3> QED
      BY <3>1, <3>2 DEF InfoCrypto, InitialCrypto
  <2>2. CASE OldSocketClosed
    <3>1. target >= 2 /\ crypto'.key = target
      BY <2>2 DEF OldSocketClosed, Inductive, Tasks
    <3>2. InitialCrypto.key = 0
      BY DEF InitialCrypto
    <3> QED
      BY <3>1, <3>2
  <2>3. CASE (Dispatch /\ ~HandleConnectionInfo) \/ RedirectRefused
    <3>1. crypto' = crypto
      BY <2>3 DEF Dispatch, RedirectRefused, HandleAccept, HandleServerTable,
         HandleRaisesValueError, HandleCrashes, Crashes, HandleRedirect, HandleLoginMessage,
         HandleUserId, HandleChallenge, HandleWorldList, IgnoreFrame, ReadBadFrame, ReadClosed,
         objectVars
    <3> QED
      BY <3>1
  <2> QED
    BY <2>1, <2>2, <2>3
<1> QED
  BY <1>2, <1>3, FramesStep

(* A new connection: its server says who it is.                            *)
LEMMA OpenedFrames ==
    ASSUME Inductive, FramesInv, Connected \/ RedirectConnected
    PROVE  FramesInv'
<1>1. PICK n \in Conns : inbox' = [inbox EXCEPT ![n] = <<Frame(n, "ACCEPT")>>] /\ crypto' = crypto
  BY ThreeConns DEF Connected, RedirectConnected, Inductive, Tasks, TypeOK, Conns, objectVars
<1>2. ASSUME NEW c \in Conns, NEW i \in DOMAIN inbox'[c] PROVE Arrives(c, inbox'[c][i])
  <2>1. CASE c = n
    <3>1. inbox'[c] = <<Frame(c, "ACCEPT")>>
      BY <1>1, <2>1 DEF Inductive, TypeOK
    <3>2. inbox'[c][i] = Frame(c, "ACCEPT")
      BY <3>1
    <3> QED
      BY <3>2 DEF Arrives, ServerOps
  <2>2. CASE c # n
    <3>1. inbox'[c] = inbox[c]
      BY <1>1, <2>2 DEF Inductive, TypeOK
    <3> QED
      BY <3>1 DEF Arrives
  <2> QED
    BY <2>1, <2>2
<1> QED
  BY <1>1, <1>2, FramesStep

(* The lobby sends a table when it is asked, hence after ConnectionInfo.   *)
LEMMA TableAfterInfo ==
    ASSUME Inductive, OneConnection, React(1), crypto = InitialCrypto
    PROVE  wire[1][got[1] + 1].op = "VERSION"
<1>1. link[1] = "open" /\ got[1] < Len(wire[1])
  BY DEF React
<1>2. writer = 1
  BY <1>1, ThreeConns DEF OneConnection
<1>3. LobbyFresh
  BY <1>2 DEF Inductive, Keys, ServerCrypto, InitialCrypto
<1>4. got[1] + 1 \in DOMAIN wire[1]
  <2>1. got[1] \in Nat /\ wire[1] \in Seq(ClientPackets)
    BY ThreeConns DEF Inductive, TypeOK
  <2> QED
    BY <1>1, <2>1
<1> QED
  BY <1>3, <1>4 DEF LobbyFresh

LEMMA ServerFramesStep ==
    ASSUME Inductive, OneConnection, FramesInv, NEW n \in Conns, Server(n)
    PROVE  FramesInv'
<1>1. crypto' = crypto /\ \A c \in Conns \ {n} : inbox'[c] = inbox[c]
  BY DEF Server, React, Challenge, Handoff, Malformed, ServerClose, clientVars, objectVars,
         Inductive, TypeOK
<1>2. inbox[n] \in Seq(ServerFrames)
  BY DEF Inductive, TypeOK
<1>3. ASSUME NEW i \in DOMAIN inbox'[n] PROVE Arrives(n, inbox'[n][i])
  <2>1. CASE React(n)
    <3> DEFINE op == wire[n][got[n] + 1].op
    <3>1. PICK ops \in Replies(n, op) : inbox' = [inbox EXCEPT ![n] = @ \o Frames(n, ops)]
      BY <2>1 DEF React
    <3>2. op \in ClientSays(n)
      <4>1. got[n] \in Nat /\ wire[n] \in Seq(ClientPackets) /\ got[n] < Len(wire[n])
        BY <2>1 DEF React, Inductive, TypeOK
      <4>2. got[n] + 1 \in DOMAIN wire[n]
        BY <4>1
      <4> QED
        BY <4>2 DEF Inductive, Placed
    <3>3. n = 1 /\ crypto = InitialCrypto => op = "VERSION"
      BY <2>1, TableAfterInfo
    <3> HIDE DEF op
    <3>4. ops \in Seq(ServerSays(n) \ {"ACCEPT"})
      BY <3>1, <3>2, RepliesAre
    <3>5. \A j \in DOMAIN ops : ops[j] \in ServerSays(n) /\ ops[j] \in ServerOps
      BY <3>4, SaysAreOps
    <3>6. \A j \in DOMAIN ops : ops[j] # "GARBLED_TABLE" \/ crypto # InitialCrypto
      <4>1. CASE n # 1
        BY <3>5, <4>1 DEF ServerSays
      <4>2. CASE n = 1 /\ crypto = InitialCrypto
        <5>1. ops = <<"INFO">>
          BY <3>1, <3>3, <4>2 DEF Replies
        <5> QED
          BY <5>1
      <4> QED
        BY <4>1, <4>2
    <3>7. /\ Frames(n, ops) = [j \in DOMAIN ops |-> Frame(n, ops[j])]
          /\ DOMAIN ops = 1 .. Len(ops) /\ Len(ops) \in Nat
      BY <3>4 DEF Frames
    <3>8. Frames(n, ops) \in Seq(ServerFrames)
      <4>1. \A j \in DOMAIN ops : Frame(n, ops[j]) \in ServerFrames
        BY <3>5, FrameIs
      <4> QED
        BY <3>7, <4>1
    <3>9. inbox'[n] = inbox[n] \o Frames(n, ops)
      BY <3>1 DEF Inductive, TypeOK
    <3>10. \/ i \in DOMAIN inbox[n] /\ inbox'[n][i] = inbox[n][i]
           \/ \E j \in DOMAIN Frames(n, ops) : inbox'[n][i] = Frames(n, ops)[j]
      BY <1>2, <3>8, <3>9
    <3> QED
      BY <3>5, <3>6, <3>7, <3>10 DEF Arrives
  <2>2. CASE Challenge(n) \/ Handoff(n) \/ Malformed(n)
    <3>1. PICK op \in ServerOps \ {"GARBLED_TABLE"} :
             inbox' = [inbox EXCEPT ![n] = Append(@, Frame(n, op))]
      BY <2>2 DEF Challenge, Handoff, Malformed, If, ServerOps
    <3>2. inbox'[n] = Append(inbox[n], Frame(n, op))
      BY <3>1 DEF Inductive, TypeOK
    <3>3. \/ i \in DOMAIN inbox[n] /\ inbox'[n][i] = inbox[n][i]
          \/ inbox'[n][i] = Frame(n, op)
      BY <1>2, <3>2
    <3> QED
      BY <3>1, <3>3 DEF Arrives
  <2>3. CASE ServerClose(n)
    <3>1. inbox'[n] = inbox[n] \/ inbox'[n] = <<>>
      BY <2>3 DEF ServerClose, Inductive, TypeOK
    <3> QED
      BY <3>1 DEF Arrives
  <2> QED
    BY <2>1, <2>2, <2>3 DEF Server
<1>4. \A c \in Conns : \A i \in DOMAIN inbox'[c] : Arrives(c, inbox'[c][i])
  BY <1>1, <1>3 DEF Arrives
<1> QED
  BY <1>1, <1>4, FramesStep

LEMMA NextFrames ==
    ASSUME Inductive, OneConnection, FramesInv, [Next]_vars
    PROVE  FramesInv'
<1>1. CASE UNCHANGED <<inbox, crypto>>
  BY <1>1 DEF FramesInv
<1>2. CASE Main \/ Timeout \/ Interrupt \/ ConnectFails \/ RequestWorldList \/ UNCHANGED vars
  <2>1. UNCHANGED <<inbox, crypto>>
    BY <1>2 DEF Main, Interrupt, FetchStart, MainWake, Reap, Logout, Close, Finish, ConnectFails,
       Timeout, InterruptEarly, InterruptWait, RequestWorldList, objectVars, netVars, vars
  <2> QED
    BY <1>1, <2>1
<1>3. CASE Connected \/ RedirectConnected
  BY <1>3, OpenedFrames
<1>4. CASE Dispatch \/ OldSocketClosed \/ RedirectRefused
  BY <1>4, ReaderFrames
<1>5. CASE \E c \in Conns : Server(c)
  BY <1>5, ServerFramesStep
<1> QED
  BY <1>2, <1>3, <1>4, <1>5 DEF Next, Opening, Follow

(* Every frame the reader is about to dispatch is under the cipher it      *)
(* holds, whichever servers the client has been sent to: the cipher is     *)
(* replaced before anything encrypted with the next one can arrive.        *)
THEOREM ClientAlwaysReads == Spec => []ClientCanRead
<1>1. Init => FramesInv
  BY ThreeConns DEF Init, FramesInv
<1>2. Inductive /\ OneConnection /\ FramesInv /\ [Next]_vars => FramesInv'
  BY NextFrames
<1>3. Inductive /\ FramesInv => ClientCanRead
  <2> SUFFICES ASSUME Inductive, FramesInv, reader = "reading", inbox[writer] # <<>>,
                      ServerEncrypts(Head(inbox[writer]).op)
               PROVE  Head(inbox[writer]).crypto = crypto
    BY DEF ClientCanRead
  <2>1. writer \in Conns /\ writer # 0 /\ writer \in Nat
    BY ThreeConns DEF Inductive, Tasks, TypeOK, Conns
  <2>2. 1 \in DOMAIN inbox[writer] /\ Head(inbox[writer]) = inbox[writer][1]
    <3>1. inbox[writer] \in Seq(ServerFrames)
      BY <2>1 DEF Inductive, TypeOK
    <3> QED
      BY <3>1
  <2> DEFINE op == inbox[writer][1].op
  <2>3. /\ inbox[writer][1] = Frame(writer, op) /\ op \in ServerSays(writer)
        /\ ServerEncrypts(op)
    BY <2>1, <2>2 DEF FramesInv, Inductive, Placed
  <2> HIDE DEF op
  <2>4. Head(inbox[writer]).crypto = ServerCrypto(writer)
    BY <2>2, <2>3 DEF Frame
  <2>5. CASE writer > 1
    BY <2>4, <2>5 DEF Inductive, Keys
  <2>6. CASE writer = 1
    <3>1. crypto = ServerCrypto(1) \/ LobbyFresh
      BY <2>6 DEF Inductive, Keys
    <3>2. ~LobbyFresh
      <4>1. op \in {"TABLE", "EMPTY_TABLE", "GARBLED_TABLE"}
        BY <2>3, <2>6 DEF ServerSays, ServerEncrypts
      <4>2. inbox[1][1].op = op /\ 1 \in DOMAIN inbox[1]
        BY <2>2, <2>6 DEF op
      <4> QED
        BY <4>1, <4>2 DEF LobbyFresh, FramesInv
    <3> QED
      BY <2>4, <2>6, <3>1, <3>2
  <2> QED
    BY <2>1, <2>5, <2>6
<1> QED
  BY <1>1, <1>2, <1>3, InductiveHolds, OneConnectionAtATime, PTL DEF Spec
-----------------------------------------------------------------------------
(* The logout.  Nothing is written once main has come to _close, and       *)
(* nothing but _logout says goodbye.                                       *)

Closing == {"closing", "flushing", "done"}

NoExit == \A c \in Conns : \A i \in DOMAIN wire[c] : wire[c][i].op # "EXIT_REQUEST"

ExitLast(c) ==
    \A i \in DOMAIN wire[c] : wire[c][i].op = "EXIT_REQUEST" <=> i = Len(wire[c])

ExitInv ==
    /\ main \notin Closing => NoExit
    /\ main \in AfterWait => requester # "sleeping"
    /\ \A c \in Conns : link[c] = "closed" => main \in {"flushing", "done"}
    /\ main = "closing" /\ World(writer) => ExitLast(writer)
    /\ GracefulLogout

(* Before _logout                                                          *)
LEMMA BeforeLogout ==
    ASSUME Inductive, ExitInv, Next, main \notin Closing, ~Logout
    PROVE  ExitInv'
<1> USE DEF mainVars, objectVars, netVars
<1>1. /\ main' \notin {"closing", "flushing"}
      /\ main' \in AfterWait => requester' # "sleeping"
  <2>1. CASE Main \/ Opening \/ Timeout \/ Interrupt
    BY <2>1 DEF Main, Opening, Interrupt, FetchStart, MainWake, Reap, Close, Finish, Connected,
       ConnectFails, Timeout, InterruptEarly, InterruptWait, RequestCancelled, Closing, AfterWait,
       ExitInv, Inductive, Tasks
  <2>2. CASE Dispatch \/ Follow
    <3>1. main = "waiting" /\ main' = main
      BY <2>2 DEF Dispatch, Follow, HandleAccept, HandleConnectionInfo, HandleServerTable,
         HandleRedirect, HandleRaisesValueError, HandleCrashes, Crashes, HandleLoginMessage, HandleUserId,
         HandleChallenge, HandleWorldList, IgnoreFrame, ReadBadFrame, ReadClosed, OldSocketClosed,
         RedirectConnected, RedirectRefused, Reading, ReaderRuns
    <3> QED
      BY <3>1 DEF AfterWait
  <2>3. CASE RequestWorldList
    BY <2>3 DEF RequestWorldList, Closing
  <2>4. CASE \E c \in Conns : Server(c)
    BY <2>4 DEF Server, React, Challenge, Handoff, Malformed, ServerClose, clientVars, Closing,
       ExitInv
  <2> QED
    BY <2>1, <2>2, <2>3, <2>4 DEF Next
<1>2. \A c \in Conns : link'[c] # "closed"
  <2>1. \A c \in Conns : link[c] # "closed"
    BY DEF ExitInv, Closing
  <2>2. CASE Main \/ Opening \/ Timeout \/ Interrupt
    BY <2>1, <2>2 DEF Main, Opening, Interrupt, FetchStart, MainWake, Reap, Close, Finish,
       Connected, ConnectFails, Timeout, InterruptEarly, InterruptWait, Closing, Inductive, TypeOK
  <2>3. CASE Dispatch \/ Follow \/ RequestWorldList
    <3>1. link' = link \/ (\E c \in Conns : \E how \in {"moved", "open"} :
                              link' = [link EXCEPT ![c] = how])
      <4>1. CASE HandleRedirect
        <5>1. writer \in Conns
          BY <4>1, FrontFrame DEF HandleRedirect
        <5> QED
          BY <4>1, <5>1 DEF HandleRedirect, SocketClosed
      <4>2. CASE RedirectConnected
        <5>1. target \in Conns
          BY <4>2 DEF RedirectConnected, Inductive, Tasks, TypeOK, Conns
        <5> QED
          BY <4>2, <5>1 DEF RedirectConnected
      <4>3. CASE ~HandleRedirect /\ ~RedirectConnected
        BY <2>3, <4>3 DEF Dispatch, Follow, HandleAccept, HandleConnectionInfo, HandleServerTable,
           HandleRaisesValueError, HandleCrashes, Crashes, HandleLoginMessage, HandleUserId,
           HandleChallenge, HandleWorldList, IgnoreFrame, ReadBadFrame, ReadClosed,
           OldSocketClosed, RedirectRefused, RequestWorldList
      <4> QED
        BY <4>1, <4>2, <4>3
    <3> QED
      BY <2>1, <3>1 DEF Inductive, TypeOK
  <2>4. CASE \E c \in Conns : Server(c)
    BY <2>1, <2>4 DEF Server, React, Challenge, Handoff, Malformed, ServerClose, Inductive, TypeOK
  <2> QED
    BY <2>2, <2>3, <2>4 DEF Next
<1>3. Writes(ClientOps \ {"EXIT_REQUEST"})
  <2>1. CASE HandleAccept \/ HandleConnectionInfo \/ HandleServerTable \/ HandleChallenge
    <3>1. main # "leaving"
      BY <2>1 DEF HandleAccept, HandleConnectionInfo, HandleServerTable, HandleChallenge,
         Reading, ReaderRuns
    <3> QED
      BY <2>1, <3>1, ReaderWrites
  <2>2. CASE RequestWorldList
    <3>1. Send(Request, crypto) /\ crypto \in Ciphers /\ Request \in ClientOps
      BY <2>2 DEF RequestWorldList, Inductive, TypeOK, Request, ClientOps
    <3> QED
      BY <3>1, SendWrites DEF Writes, Request
  <2>3. CASE RedirectConnected
    BY <2>3, GreetingWrites DEF Writes, ClientOps
  <2>4. CASE UNCHANGED wire
    BY <2>4 DEF Writes
  <2>5. CASE Main \/ Opening \/ Timeout \/ Interrupt
    BY <2>4, <2>5 DEF Main, Opening, Interrupt, FetchStart, MainWake, Reap, Close, Finish,
       Connected, ConnectFails, Timeout, InterruptEarly, InterruptWait
  <2>6. CASE \/ HandleRaisesValueError \/ HandleCrashes \/ HandleRedirect \/ HandleLoginMessage
             \/ HandleUserId \/ HandleWorldList \/ IgnoreFrame \/ ReadBadFrame \/ ReadClosed
             \/ OldSocketClosed \/ RedirectRefused
    BY <2>4, <2>6 DEF HandleRaisesValueError, HandleCrashes, Crashes, HandleRedirect, HandleLoginMessage,
       HandleUserId, HandleWorldList, IgnoreFrame, ReadBadFrame, ReadClosed, OldSocketClosed,
       RedirectRefused
  <2>7. CASE \E c \in Conns : Server(c)
    BY <2>4, <2>7 DEF Server, React, Challenge, Handoff, Malformed, ServerClose
  <2> QED
    BY <2>1, <2>2, <2>3, <2>5, <2>6, <2>7 DEF Next, Dispatch, Follow
<1>4. NoExit'
  BY <1>3 DEF ExitInv, NoExit, Writes
<1>5. GracefulLogout'
  BY <1>2 DEF GracefulLogout
<1> QED
  BY <1>1, <1>2, <1>4, <1>5 DEF ExitInv

(* _logout says goodbye on a world: after a redirect out of the login      *)
(* server or a world the state is WORLD too.                               *)
LEMMA AtLogout ==
    ASSUME Inductive, ExitInv, Logout
    PROVE  ExitInv'
<1>1. /\ main = "leaving" /\ main' = "closing" /\ UNCHANGED <<requester, writer, link, state>>
  BY DEF Logout, objectVars
<1>2. NoExit /\ requester # "sleeping" /\ \A c \in Conns : link[c] # "closed"
  BY <1>1 DEF ExitInv, Closing, AfterWait
<1>3. ASSUME World(writer) PROVE ExitLast(writer)'
  <2>1. writer \in Conns /\ writer # 0
    BY <1>3, ThreeConns DEF Inductive, TypeOK, Conns, World
  <2>2. state = "WORLD"
    BY <1>3, <2>1, ThreeConns DEF Inductive, Tasks, StateOf, AfterRedirect, World
  <2>3. Send("EXIT_REQUEST", crypto) /\ crypto \in Ciphers /\ "EXIT_REQUEST" \in ClientOps
    BY <2>1, <2>2 DEF Logout, ShouldLogout, Inductive, TypeOK, ClientOps
  <2>4. /\ wire'[writer] = Append(wire[writer], Packet("EXIT_REQUEST", crypto, sequence))
        /\ wire[writer] \in Seq(ClientPackets)
    BY <2>1, <2>3, SendEffect DEF Inductive, TypeOK
  <2>5. Packet("EXIT_REQUEST", crypto, sequence).op = "EXIT_REQUEST"
    BY DEF Packet
  <2>6. /\ Len(wire'[writer]) = Len(wire[writer]) + 1 /\ Len(wire[writer]) \in Nat
        /\ DOMAIN wire'[writer] = 1 .. Len(wire[writer]) + 1
        /\ DOMAIN wire[writer] = 1 .. Len(wire[writer])
        /\ wire'[writer][Len(wire[writer]) + 1] = Packet("EXIT_REQUEST", crypto, sequence)
        /\ \A i \in DOMAIN wire[writer] : wire'[writer][i] = wire[writer][i]
    BY <2>4
  <2>7. \A i \in DOMAIN wire'[writer] : i \in DOMAIN wire[writer] \/ i = Len(wire[writer]) + 1
    BY <2>6
  <2>8. \A i \in DOMAIN wire[writer] : i # Len(wire[writer]) + 1
    BY <2>6
  <2>9. \A i \in DOMAIN wire'[writer] :
           wire'[writer][i].op = "EXIT_REQUEST" <=> i = Len(wire'[writer])
    BY <1>2, <2>1, <2>5, <2>6, <2>7, <2>8 DEF NoExit
  <2> QED
    BY <1>1, <2>9 DEF ExitLast
<1>4. GracefulLogout'
  BY <1>1, <1>2 DEF GracefulLogout
<1> QED
  BY <1>1, <1>2, <1>3, <1>4 DEF ExitInv, Closing, AfterWait

(* After it nobody writes: the reader and the request have been cancelled. *)
LEMMA AfterLogout ==
    ASSUME Inductive, ExitInv, Next, main \in Closing
    PROVE  ExitInv'
<1> USE DEF mainVars, objectVars, netVars
<1>1. requester # "sleeping"
  BY DEF ExitInv, Closing, AfterWait
<1>2. CASE Close \/ Finish \/ InterruptEarly
  <2>1. /\ main' \in {"flushing", "done"} /\ UNCHANGED <<wire, requester>>
        /\ \/ UNCHANGED link
           \/ main = "closing" /\ writer # 0 /\ link' = [link EXCEPT ![writer] = "closed"]
    BY <1>2 DEF Close, Finish, InterruptEarly, SocketClosed
  <2>2. \A c \in Conns : World(c) /\ link'[c] = "closed" =>
           (World(c) /\ link[c] = "closed") \/ (main = "closing" /\ c = writer /\ World(writer))
    BY <2>1 DEF Inductive, TypeOK
  <2>3. GracefulLogout'
    BY <2>1, <2>2 DEF ExitInv, GracefulLogout, ExitLast
  <2> QED
    BY <1>1, <2>1, <2>3 DEF ExitInv, Closing
<1>3. CASE \E c \in Conns : Server(c)
  <2>1. /\ UNCHANGED <<main, wire, requester, writer>>
        /\ \A c \in Conns : link'[c] = "closed" => link[c] = "closed"
    BY <1>3 DEF Server, React, Challenge, Handoff, Malformed, ServerClose, clientVars, Inductive,
       TypeOK
  <2>2. GracefulLogout'
    BY <2>1 DEF ExitInv, GracefulLogout
  <2> QED
    BY <2>1, <2>2 DEF ExitInv, ExitLast, Closing
<1>4. CASE ~(Close \/ Finish \/ InterruptEarly) /\ ~\E c \in Conns : Server(c)
  <2>1. main \in {"closing", "flushing", "done"}
    BY DEF Closing
  <2>2. ~Dispatch /\ ~Follow
    BY <2>1 DEF Dispatch, Follow, HandleAccept, HandleConnectionInfo, HandleServerTable,
       HandleRedirect, HandleRaisesValueError, HandleCrashes, Crashes, HandleLoginMessage, HandleUserId,
       HandleChallenge, HandleWorldList, IgnoreFrame, ReadBadFrame, ReadClosed, OldSocketClosed,
       RedirectConnected, RedirectRefused, Reading, ReaderRuns
  <2>3. ~RequestWorldList /\ ~Opening /\ ~Timeout /\ ~InterruptWait
    BY <1>1, <2>1 DEF RequestWorldList, Opening, Connected, ConnectFails, Timeout, InterruptWait
  <2>4. ~FetchStart /\ ~MainWake /\ ~Reap /\ ~Logout
    BY <2>1 DEF FetchStart, MainWake, Reap, Logout
  <2> QED
    BY <1>4, <2>2, <2>3, <2>4 DEF Next, Main, Interrupt
<1> QED
  BY <1>2, <1>3, <1>4

(* A run that comes to its end on a world connection has said goodbye      *)
(* there, once, and last: whatever ended the wait, whatever was written    *)
(* before, and though the request may have been about to write.            *)
THEOREM AlwaysGraceful == Spec => []GracefulLogout
<1>1. Init => ExitInv
  BY DEF Init, ExitInv, NoExit, Closing, AfterWait, GracefulLogout
<1>2. Inductive /\ ExitInv /\ [Next]_vars => ExitInv'
  <2> SUFFICES ASSUME Inductive, ExitInv, [Next]_vars PROVE ExitInv'
    OBVIOUS
  <2>1. CASE UNCHANGED vars
    <3>1. UNCHANGED <<main, wire, requester, writer, link>>
      BY <2>1 DEF vars, mainVars, netVars
    <3> QED
      BY <3>1 DEF ExitInv, NoExit, ExitLast, GracefulLogout
  <2>2. CASE Next
    BY <2>2, BeforeLogout, AtLogout, AfterLogout
  <2> QED
    BY <2>1, <2>2
<1>3. ExitInv => GracefulLogout
  BY DEF ExitInv
<1> QED
  BY <1>1, <1>2, <1>3, InductiveHolds, PTL DEF Spec
-----------------------------------------------------------------------------
(* The answers.  Challenges and answers are matched by their places among  *)
(* the positions they have in a sequence, which the steps shift by one.    *)

(* The place of an element in a set of positions                            *)
LEMMA PlaceType ==
    ASSUME NEW n \in Nat, NEW S \in SUBSET (1 .. n)
    PROVE  /\ IsFiniteSet(S) /\ Cardinality(S) \in Nat
           /\ \A i : Place(i, S) \in 0 .. Cardinality(S)
           /\ \A i \in S : Place(i, S) \in 1 .. Cardinality(S)
<1>1. IsFiniteSet(S) /\ Cardinality(S) \in Nat
  <2>1. IsFiniteSet(1 .. n)
    BY FS_Interval
  <2>2. IsFiniteSet(S)
    BY <2>1, FS_Subset
  <2> QED
    BY <2>2, FS_CardinalityType
<1>2. ASSUME NEW i PROVE /\ Place(i, S) \in 0 .. Cardinality(S)
                         /\ i \in S => Place(i, S) # 0
  <2> DEFINE T == {j \in S : j <= i}
  <2>1. T \in SUBSET S
    OBVIOUS
  <2>2. IsFiniteSet(T) /\ Cardinality(T) <= Cardinality(S)
    BY <1>1, <2>1, FS_Subset
  <2>3. Cardinality(T) \in Nat
    BY <2>2, FS_CardinalityType
  <2>4. i \in S => T # {}
    OBVIOUS
  <2>5. i \in S => Cardinality(T) # 0
    BY <2>2, <2>4, FS_EmptySet
  <2> QED
    BY <1>1, <2>2, <2>3, <2>5 DEF Place
<1> QED
  BY <1>1, <1>2

(* A position is added at the end.                                         *)
LEMMA PlaceOneMore ==
    ASSUME NEW n \in Nat, NEW S \in SUBSET (1 .. n)
    PROVE  /\ Cardinality(S \cup {n + 1}) = Cardinality(S) + 1
           /\ \A i \in S : Place(i, S \cup {n + 1}) = Place(i, S)
           /\ Place(n + 1, S \cup {n + 1}) = Cardinality(S) + 1
<1>1. Cardinality(S \cup {n + 1}) = Cardinality(S) + 1
  BY PlaceType, FS_AddElement
<1>2. ASSUME NEW i \in S PROVE Place(i, S \cup {n + 1}) = Place(i, S)
  <2>1. {j \in S \cup {n + 1} : j <= i} = {j \in S : j <= i}
    OBVIOUS
  <2> QED
    BY <2>1 DEF Place
<1>3. {j \in S \cup {n + 1} : j <= n + 1} = S \cup {n + 1}
  <2>1. \A j \in S \cup {n + 1} : j <= n + 1
    OBVIOUS
  <2> QED
    BY <2>1, Zenon
<1> QED
  BY <1>1, <1>2, <1>3 DEF Place

LEMMA ShiftedSize ==
    ASSUME NEW A \in SUBSET Nat, IsFiniteSet(A)
    PROVE  Cardinality({i + 1 : i \in A}) = Cardinality(A)
<1> DEFINE B == {i + 1 : i \in A}
           f == [i \in A |-> i + 1]
<1>1. f \in Bijection(A, B)
  <2>1. f \in [A -> B]
    OBVIOUS
  <2>2. \A x, y \in A : f[x] = f[y] => x = y
    OBVIOUS
  <2>3. \A y \in B : \E x \in A : f[x] = y
    OBVIOUS
  <2> QED
    BY <2>1, <2>2, <2>3 DEF Bijection, Injection, Surjection, IsInjective
<1>2. ExistsBijection(A, B)
  BY <1>1 DEF ExistsBijection
<1> QED
  BY <1>2, FS_Bijection

(* The first element of a sequence is taken away.                          *)
LEMMA PlaceOneLess ==
    ASSUME NEW n \in Nat, NEW S \in SUBSET (1 .. n),
           NEW T \in SUBSET Nat, \A i \in Nat : i \in T <=> i + 1 \in S /\ i # 0
    PROVE  /\ 1 \in S => /\ Cardinality(S) = 1 + Cardinality(T)
                         /\ \A i \in T : Place(i + 1, S) = 1 + Place(i, T)
                         /\ Place(1, S) = 1
           /\ 1 \notin S => /\ Cardinality(S) = Cardinality(T)
                            /\ \A i \in T : Place(i + 1, S) = Place(i, T)
<1> DEFINE first == IF 1 \in S THEN 1 ELSE 0
<1>1. T \in SUBSET (1 .. n)
  OBVIOUS
<1>2. IsFiniteSet(T) /\ IsFiniteSet(S) /\ Cardinality(S) \in Nat
  BY <1>1, PlaceType
<1> DEFINE After(A) == {i + 1 : i \in A}
<1>3. ASSUME NEW A \in SUBSET T, NEW B \in SUBSET S,
             B \ {1} = After(A), 1 \in S => 1 \in B
      PROVE  Cardinality(B) = first + Cardinality(A)
  <2>1. IsFiniteSet(A) /\ IsFiniteSet(B)
    BY <1>2, FS_Subset
  <2>2. Cardinality(B \ {1}) = Cardinality(A)
    BY <2>1, ShiftedSize, <1>3
  <2>3. Cardinality(B \ {1}) = IF 1 \in B THEN Cardinality(B) - 1 ELSE Cardinality(B)
    BY <2>1, FS_RemoveElement
  <2>4. Cardinality(A) \in Nat /\ Cardinality(B) \in Nat
    BY <2>1, FS_CardinalityType
  <2> QED
    BY <1>3, <2>2, <2>3, <2>4
<1>4. ASSUME NEW j \in S \ {1} PROVE j - 1 \in T /\ (j - 1) + 1 = j
  OBVIOUS
<1>5. Cardinality(S) = first + Cardinality(T)
  <2>1. ASSUME NEW j \in S \ {1} PROVE j \in After(T)
    BY <1>4
  <2>2. ASSUME NEW j \in After(T) PROVE j \in S \ {1}
    OBVIOUS
  <2>3. S \ {1} = After(T)
    BY <2>1, <2>2, Zenon
  <2> QED
    BY <1>3, <2>3
<1>6. ASSUME NEW i \in T PROVE Place(i + 1, S) = first + Place(i, T)
  <2> DEFINE A == {j \in T : j <= i}
             B == {j \in S : j <= i + 1}
  <2>1. B \ {1} = After(A)
    <3>1. ASSUME NEW j \in B \ {1} PROVE j \in After(A)
      BY <1>4
    <3>2. ASSUME NEW j \in After(A) PROVE j \in B \ {1}
      OBVIOUS
    <3> QED
      BY <3>1, <3>2, Zenon
  <2>2. A \in SUBSET T /\ B \in SUBSET S /\ (1 \in S => 1 \in B)
    OBVIOUS
  <2> HIDE DEF A, B
  <2>3. Cardinality(B) = first + Cardinality(A)
    BY <1>3, <2>1, <2>2
  <2> QED
    BY <2>3 DEF A, B, Place
<1>7. ASSUME 1 \in S PROVE Place(1, S) = 1
  <2>1. \A j \in S : j <= 1 <=> j = 1
    OBVIOUS
  <2>2. {j \in S : j <= 1} = {1}
    BY <1>7, <2>1, Zenon
  <2> QED
    BY <2>2, FS_Singleton DEF Place
<1>8. Cardinality(T) \in Nat /\ \A i : Place(i, T) \in Nat
  <2>1. \A i : Place(i, T) \in 0 .. Cardinality(T)
    BY <1>1, PlaceType
  <2> QED
    BY <1>2, <2>1, FS_CardinalityType
<1> QED
  BY <1>5, <1>6, <1>7, <1>8

(* The positions of some operations in a sequence: where a packet or a     *)
(* frame is appended, and where the first is taken away.                   *)
LEMMA AmongIs ==
    ASSUME NEW X, NEW s \in Seq(X), NEW ops
    PROVE  Among(ops, s) \in SUBSET (1 .. Len(s)) /\ Len(s) \in Nat
  BY DEF Among

LEMMA AmongMore ==
    ASSUME NEW X, NEW s \in Seq(X), NEW x, NEW ops
    PROVE  Among(ops, Append(s, x)) =
             IF x.op \in ops THEN Among(ops, s) \cup {Len(s) + 1} ELSE Among(ops, s)
<1> DEFINE t == Append(s, x)
<1>1. /\ DOMAIN s = 1 .. Len(s) /\ Len(s) \in Nat
      /\ DOMAIN t = 1 .. (Len(s) + 1)
      /\ \A i \in DOMAIN s : t[i] = s[i]
      /\ t[Len(s) + 1] = x
  OBVIOUS
<1> HIDE DEF t
<1>2. \A i \in DOMAIN t : i \in DOMAIN s \/ i = Len(s) + 1
  BY <1>1
<1>3. \A i \in DOMAIN s : i \in DOMAIN t /\ i # Len(s) + 1
  BY <1>1
<1>4. Len(s) + 1 \in DOMAIN t
  BY <1>1
<1>5. Among(ops, t) = IF x.op \in ops THEN Among(ops, s) \cup {Len(s) + 1} ELSE Among(ops, s)
  BY <1>1, <1>2, <1>3, <1>4, Zenon DEF Among
<1> QED
  BY <1>5 DEF t

LEMMA AmongRest ==
    ASSUME NEW X, NEW s \in Seq(X), s # <<>>, NEW ops
    PROVE  /\ Among(ops, Tail(s)) \in SUBSET Nat
           /\ \A i \in Nat : i \in Among(ops, Tail(s)) <=> i + 1 \in Among(ops, s) /\ i # 0
           /\ \A i \in Among(ops, Tail(s)) : Tail(s)[i] = s[i + 1]
           /\ 1 \in Among(ops, s) <=> Head(s).op \in ops
<1>1. /\ DOMAIN s = 1 .. Len(s) /\ Len(s) \in Nat \ {0}
      /\ Tail(s) \in Seq(X) /\ DOMAIN Tail(s) = 1 .. (Len(s) - 1)
      /\ \A i \in DOMAIN Tail(s) : Tail(s)[i] = s[i + 1]
      /\ Head(s) = s[1]
  OBVIOUS
<1>2. \A i \in Nat : i \in DOMAIN Tail(s) <=> i + 1 \in DOMAIN s /\ i # 0
  BY <1>1
<1>3. 1 \in DOMAIN s /\ DOMAIN Tail(s) \subseteq Nat
  BY <1>1
<1> QED
  BY <1>1, <1>2, <1>3 DEF Among

(* What keeps Answered                                                     *)
LEMMA WriteKeepsAnswers ==
    ASSUME NEW P, NEW w \in Seq(P), NEW frames, NEW challenges, NEW packet,
           Answered(w, frames, challenges), packet.op \notin Responses
    PROVE  Answered(Append(w, packet), frames, challenges)
<1>1. Among(Responses, Append(w, packet)) = Among(Responses, w)
  BY AmongMore
<1>2. \A i \in Among(Responses, w) : Append(w, packet)[i] = w[i]
  BY DEF Among
<1> QED
  BY <1>1, <1>2 DEF Answered

(* Frames that are no challenges arrive.                                   *)
LEMMA ConcatIs ==
    ASSUME NEW X, NEW a \in Seq(X), NEW b \in Seq(X)
    PROVE  /\ \A i \in DOMAIN a : i \in DOMAIN (a \o b) /\ (a \o b)[i] = a[i]
           /\ \A i \in DOMAIN (a \o b) :
                  i \in DOMAIN a \/ \E j \in DOMAIN b : (a \o b)[i] = b[j]
  OBVIOUS

LEMMA MoreKeepsAnswers ==
    ASSUME NEW packets, NEW F, NEW fs \in Seq(F), NEW challenges, NEW more,
           Answered(packets, fs, challenges),
           \A i \in DOMAIN fs : i \in DOMAIN more /\ more[i] = fs[i],
           \A i \in DOMAIN more : i \in DOMAIN fs \/ more[i].op \notin Beats
    PROVE  Answered(packets, more, challenges)
<1>1. Among(Beats, more) = Among(Beats, fs)
  BY DEF Among
<1>2. \A i \in Among(Beats, fs) : more[i] = fs[i]
  BY DEF Among
<1> QED
  BY <1>1, <1>2 DEF Answered

(* A challenge arrives; the first frame is no challenge; or it is one, and *)
(* its answer is written.                                                  *)
LEMMA ChallengeKeepsAnswers ==
    ASSUME NEW P, NEW w \in Seq(P), NEW F, NEW fs \in Seq(F),
           NEW challenges \in Seq(Beats), NEW frame,
           Answered(w, fs, challenges), frame.op \in Beats
    PROVE  Answered(w, Append(fs, frame), Append(challenges, frame.op))
<1> DEFINE done == Among(Responses, w)
           owed == Among(Beats, fs)
           more == Among(Beats, Append(fs, frame))
           next == Append(challenges, frame.op)
<1>1. /\ Len(w) \in Nat /\ done \in SUBSET (1 .. Len(w))
      /\ Len(fs) \in Nat /\ owed \in SUBSET (1 .. Len(fs))
  BY AmongIs
<1>2. more = owed \cup {Len(fs) + 1}
  BY AmongMore
<1>3. /\ \A i \in owed : Append(fs, frame)[i] = fs[i]
      /\ Append(fs, frame)[Len(fs) + 1] = frame
  BY DEF Among
<1>4. /\ Cardinality(done) + Cardinality(owed) = Len(challenges)
      /\ \A i \in done : w[i].op = AnswerTo[challenges[Place(i, done)]]
      /\ \A i \in owed : fs[i].op = challenges[Cardinality(done) + Place(i, owed)]
  BY DEF Answered
<1> HIDE DEF done, owed, more
<1>5. /\ Cardinality(done) \in Nat /\ Cardinality(owed) \in Nat
      /\ \A i \in done : Place(i, done) \in 1 .. Cardinality(done)
      /\ \A i \in owed : Place(i, owed) \in 1 .. Cardinality(owed)
  BY <1>1, PlaceType
<1>6. /\ Cardinality(more) = Cardinality(owed) + 1
      /\ \A i \in owed : Place(i, more) = Place(i, owed)
      /\ Place(Len(fs) + 1, more) = Cardinality(owed) + 1
  BY <1>1, <1>2, PlaceOneMore
<1>7. /\ Len(next) = Len(challenges) + 1 /\ Len(challenges) \in Nat
      /\ \A k \in 1 .. Len(challenges) : next[k] = challenges[k]
      /\ next[Len(challenges) + 1] = frame.op
  OBVIOUS
<1> HIDE DEF next
<1>8. Cardinality(done) + Cardinality(more) = Len(next)
  BY <1>4, <1>5, <1>6, <1>7
<1>9. ASSUME NEW i \in done PROVE w[i].op = AnswerTo[next[Place(i, done)]]
  <2>1. Place(i, done) \in 1 .. Len(challenges)
    BY <1>4, <1>5
  <2> QED
    BY <1>4, <1>7, <2>1
<1>10. ASSUME NEW i \in more
       PROVE  Append(fs, frame)[i].op = next[Cardinality(done) + Place(i, more)]
  <2>1. CASE i \in owed
    <3>1. Cardinality(done) + Place(i, owed) \in 1 .. Len(challenges)
      BY <1>4, <1>5, <2>1
    <3> QED
      BY <1>3, <1>4, <1>6, <1>7, <2>1, <3>1
  <2>2. CASE i = Len(fs) + 1
    <3>1. Place(i, more) = Cardinality(owed) + 1
      BY <1>6, <2>2
    <3>2. Cardinality(done) + Place(i, more) = Len(challenges) + 1
      BY <1>4, <1>5, <3>1
    <3> QED
      BY <1>3, <1>7, <2>2, <3>2
  <2> QED
    BY <1>2, <2>1, <2>2
<1> QED
  BY <1>8, <1>9, <1>10 DEF Answered, done, more, next

LEMMA SkipKeepsAnswers ==
    ASSUME NEW P, NEW w \in Seq(P), NEW F, NEW fs \in Seq(F), fs # <<>>, NEW challenges,
           Answered(w, fs, challenges), Head(fs).op \notin Beats
    PROVE  Answered(w, Tail(fs), challenges)
<1> DEFINE done == Among(Responses, w)
           owed == Among(Beats, fs)
           rest == Among(Beats, Tail(fs))
<1>1. /\ Len(fs) \in Nat /\ owed \in SUBSET (1 .. Len(fs))
      /\ Len(w) \in Nat /\ done \in SUBSET (1 .. Len(w))
  BY AmongIs
<1>2. /\ rest \in SUBSET Nat /\ 1 \notin owed
      /\ \A i \in Nat : i \in rest <=> i + 1 \in owed /\ i # 0
      /\ \A i \in rest : Tail(fs)[i] = fs[i + 1]
  BY AmongRest
<1>3. /\ Cardinality(done) + Cardinality(owed) = Len(challenges)
      /\ \A i \in done : w[i].op = AnswerTo[challenges[Place(i, done)]]
      /\ \A i \in owed : fs[i].op = challenges[Cardinality(done) + Place(i, owed)]
  BY DEF Answered
<1> HIDE DEF done, owed, rest
<1>4. Cardinality(owed) \in Nat
  BY <1>1, PlaceType
<1>5. IsFiniteSet(rest) /\ Cardinality(rest) \in Nat /\ \A i : Place(i, rest) \in Nat
  <2>1. rest \in SUBSET (1 .. Len(fs))
    BY <1>1, <1>2
  <2>2. /\ IsFiniteSet(rest) /\ Cardinality(rest) \in Nat
        /\ \A i : Place(i, rest) \in 0 .. Cardinality(rest)
    BY <1>1, <2>1, PlaceType
  <2> QED
    BY <2>2
<1>6. /\ Cardinality(owed) = Cardinality(rest)
      /\ \A i \in rest : Place(i + 1, owed) = Place(i, rest)
  BY <1>1, <1>2, PlaceOneLess
<1>7. Cardinality(done) + Cardinality(rest) = Len(challenges)
  BY <1>3, <1>5, <1>6
<1>8. ASSUME NEW i \in rest
      PROVE  Tail(fs)[i].op = challenges[Cardinality(done) + Place(i, rest)]
  <2>1. i + 1 \in owed /\ Tail(fs)[i] = fs[i + 1]
    BY <1>2
  <2>2. Place(i + 1, owed) = Place(i, rest)
    BY <1>5, <1>6
  <2> QED
    BY <1>3, <2>1, <2>2
<1> QED
  BY <1>3, <1>7, <1>8 DEF Answered, done, rest

LEMMA AnswerKeepsAnswers ==
    ASSUME NEW P, NEW w \in Seq(P), NEW F, NEW fs \in Seq(F), fs # <<>>,
           NEW challenges \in Seq(Beats), NEW packet,
           Answered(w, fs, challenges), Head(fs).op \in Beats,
           packet.op = AnswerTo[Head(fs).op]
    PROVE  Answered(Append(w, packet), Tail(fs), challenges)
<1> DEFINE done == Among(Responses, w)
           owed == Among(Beats, fs)
           more == Among(Responses, Append(w, packet))
           rest == Among(Beats, Tail(fs))
<1>1. /\ Len(fs) \in Nat /\ owed \in SUBSET (1 .. Len(fs))
      /\ Len(w) \in Nat /\ done \in SUBSET (1 .. Len(w))
  BY AmongIs
<1>2. /\ rest \in SUBSET Nat /\ 1 \in owed
      /\ \A i \in Nat : i \in rest <=> i + 1 \in owed /\ i # 0
      /\ \A i \in rest : Tail(fs)[i] = fs[i + 1]
  BY AmongRest
<1>3. more = done \cup {Len(w) + 1}
  <2>1. packet.op \in Responses
    BY DEF Responses
  <2> QED
    BY <2>1, AmongMore
<1>4. /\ \A i \in done : Append(w, packet)[i] = w[i]
      /\ Append(w, packet)[Len(w) + 1] = packet
  BY DEF Among
<1>5. /\ Cardinality(done) + Cardinality(owed) = Len(challenges)
      /\ \A i \in done : w[i].op = AnswerTo[challenges[Place(i, done)]]
      /\ \A i \in owed : fs[i].op = challenges[Cardinality(done) + Place(i, owed)]
  BY DEF Answered
<1>6. Head(fs) = fs[1]
  OBVIOUS
<1> HIDE DEF done, owed, rest, more
<1>7. /\ Cardinality(owed) \in Nat /\ Cardinality(done) \in Nat
  BY <1>1, PlaceType
<1>8. Cardinality(rest) \in Nat /\ \A i : Place(i, rest) \in Nat
  <2>1. rest \in SUBSET (1 .. Len(fs))
    BY <1>1, <1>2
  <2>2. /\ IsFiniteSet(rest) /\ Cardinality(rest) \in Nat
        /\ \A i : Place(i, rest) \in 0 .. Cardinality(rest)
    BY <1>1, <2>1, PlaceType
  <2> QED
    BY <2>2
<1>9. /\ Cardinality(more) = Cardinality(done) + 1
      /\ \A i \in done : Place(i, more) = Place(i, done)
      /\ Place(Len(w) + 1, more) = Cardinality(done) + 1
  BY <1>1, <1>3, PlaceOneMore
<1>10. /\ Cardinality(owed) = 1 + Cardinality(rest)
       /\ \A i \in rest : Place(i + 1, owed) = 1 + Place(i, rest)
       /\ Place(1, owed) = 1
  BY <1>1, <1>2, PlaceOneLess
<1>11. Cardinality(more) + Cardinality(rest) = Len(challenges)
  BY <1>5, <1>7, <1>8, <1>9, <1>10
<1>12. ASSUME NEW i \in more
       PROVE  Append(w, packet)[i].op = AnswerTo[challenges[Place(i, more)]]
  <2>1. CASE i \in done
    BY <1>4, <1>5, <1>9, <2>1
  <2>2. CASE i = Len(w) + 1
    <3>1. fs[1].op = challenges[Cardinality(done) + 1]
      BY <1>2, <1>5, <1>10
    <3> QED
      BY <1>4, <1>6, <1>9, <2>2, <3>1
  <2> QED
    BY <1>3, <2>1, <2>2
<1>13. ASSUME NEW i \in rest
       PROVE  Tail(fs)[i].op = challenges[Cardinality(more) + Place(i, rest)]
  <2>1. i + 1 \in owed /\ Tail(fs)[i] = fs[i + 1]
    BY <1>2
  <2>2. Cardinality(done) + Place(i + 1, owed) = Cardinality(more) + Place(i, rest)
    BY <1>7, <1>8, <1>9, <1>10
  <2> QED
    BY <1>5, <2>1, <2>2
<1> QED
  BY <1>11, <1>12, <1>13 DEF Answered, more, rest
-----------------------------------------------------------------------------
(* Nothing is owed on a connection that was never opened.                  *)
BeatInv == BeatsAnswered /\ \A c \in Conns : link[c] = "idle" => asked[c] = <<>>

LEMMA ResponsesAre == Responses = {"HEARTBEAT_RESPONSE", "TICKS_RESPONSE"}
<1>1. AnswerTo["HEARTBEAT"] = "HEARTBEAT_RESPONSE" /\ AnswerTo["TICKS"] = "TICKS_RESPONSE"
  BY DEF AnswerTo
<1>2. Responses = {AnswerTo["HEARTBEAT"], AnswerTo["TICKS"]}
  BY Zenon DEF Responses, Beats
<1> QED
  BY <1>1, <1>2

(* A connection on which nothing has been asked                            *)
LEMMA NothingOwed ==
    ASSUME NEW packets, NEW fs,
           \A i \in DOMAIN packets : packets[i].op \notin Responses,
           \A i \in DOMAIN fs : fs[i].op \notin Beats
    PROVE  Answered(packets, fs, <<>>)
<1>1. Among(Responses, packets) = {} /\ Among(Beats, fs) = {}
  BY DEF Among
<1>2. Cardinality({}) = 0
  BY FS_EmptySet
<1> QED
  BY <1>1, <1>2 DEF Answered

(* The reader takes a frame that is no challenge and may write a packet    *)
(* that is no answer.                                                      *)
LEMMA SkipBeats ==
    ASSUME Inductive, BeatsAnswered, NEW ops, Reading(ops), ops \cap Beats = {},
           UNCHANGED <<writer, link, asked>>,
           \/ UNCHANGED wire
           \/ \E op \in ClientOps \ Responses, cr \in Ciphers : Send(op, cr)
    PROVE  BeatsAnswered'
<1> SUFFICES ASSUME link[writer] = "open"
             PROVE  Answered(wire'[writer], inbox'[writer], asked[writer])
  BY DEF BeatsAnswered
<1>1. /\ writer \in Conns /\ reader = "reading" /\ inbox[writer] # <<>>
      /\ inbox' = [inbox EXCEPT ![writer] = Tail(@)]
      /\ Head(inbox[writer]).op \notin Beats
  BY FrontFrame DEF Reading
<1>2. inbox[writer] \in Seq(ServerFrames) /\ wire[writer] \in Seq(ClientPackets)
      /\ inbox'[writer] = Tail(inbox[writer])
  BY <1>1 DEF Inductive, TypeOK
<1>3. Answered(wire[writer], inbox'[writer], asked[writer])
  BY <1>1, <1>2, SkipKeepsAnswers DEF BeatsAnswered
<1>4. CASE UNCHANGED wire
  BY <1>3, <1>4
<1>5. CASE \E op \in ClientOps \ Responses, cr \in Ciphers : Send(op, cr)
  <2>1. PICK op \in ClientOps \ Responses, cr \in Ciphers : Send(op, cr)
    BY <1>5
  <2>2. wire'[writer] = Append(wire[writer], Packet(op, cr, sequence))
    BY <1>1, <2>1, SendEffect DEF Inductive, TypeOK
  <2>3. Packet(op, cr, sequence).op = op
    BY DEF Packet
  <2> QED
    BY <1>2, <1>3, <2>1, <2>2, <2>3, WriteKeepsAnswers
<1> QED
  BY <1>4, <1>5

LEMMA ChallengeAnswered ==
    ASSUME Inductive, BeatsAnswered, HandleChallenge
    PROVE  BeatsAnswered'
<1>1. /\ Reading(Beats) /\ UNCHANGED <<writer, link, asked>>
      /\ Send(Response(Head(inbox[writer]).op), crypto)
  BY DEF HandleChallenge, Beats
<1> SUFFICES ASSUME link[writer] = "open"
             PROVE  Answered(wire'[writer], inbox'[writer], asked[writer])
  BY <1>1 DEF BeatsAnswered
<1>2. /\ writer \in Conns /\ reader = "reading" /\ inbox[writer] # <<>>
      /\ inbox' = [inbox EXCEPT ![writer] = Tail(@)]
      /\ Head(inbox[writer]).op \in Beats
  BY <1>1, FrontFrame DEF Reading
<1> DEFINE op == Head(inbox[writer]).op
<1>3. Response(op) = AnswerTo[op] /\ Response(op) \in ClientOps
  BY <1>2 DEF Response, AnswerTo, Beats, ClientOps
<1>4. /\ inbox[writer] \in Seq(ServerFrames) /\ wire[writer] \in Seq(ClientPackets)
      /\ asked[writer] \in Seq(Beats) /\ crypto \in Ciphers
      /\ inbox'[writer] = Tail(inbox[writer])
  BY <1>2 DEF Inductive, TypeOK, Beats
<1>5. wire'[writer] = Append(wire[writer], Packet(Response(op), crypto, sequence))
  BY <1>1, <1>2, <1>3, <1>4, SendEffect DEF Inductive, TypeOK
<1>6. Packet(Response(op), crypto, sequence).op = Response(op)
  BY DEF Packet
<1>7. Answered(wire[writer], inbox[writer], asked[writer])
  BY <1>2 DEF BeatsAnswered
<1> QED
  BY <1>2, <1>3, <1>4, <1>5, <1>6, <1>7, AnswerKeepsAnswers

(* The tasks that write without having read                                *)
LEMMA WriteBeats ==
    ASSUME Inductive, BeatsAnswered, RequestWorldList
    PROVE  BeatsAnswered'
<1>1. Send(Request, crypto) /\ UNCHANGED <<writer, link, inbox, asked, reader>>
  BY DEF RequestWorldList, Request
<1> SUFFICES ASSUME reader = "reading", link[writer] = "open"
             PROVE  Answered(wire'[writer], inbox[writer], asked[writer])
  BY <1>1 DEF BeatsAnswered
<1>2. writer \in Conns /\ crypto \in Ciphers /\ Request \in ClientOps \ Responses
  BY ResponsesAre DEF Inductive, Tasks, TypeOK, Conns, Request, ClientOps
<1>3. wire'[writer] = Append(wire[writer], Packet(Request, crypto, sequence))
  BY <1>1, <1>2, SendEffect DEF Inductive, TypeOK
<1>4. Packet(Request, crypto, sequence).op = Request /\ wire[writer] \in Seq(ClientPackets)
  BY <1>2 DEF Packet, Inductive, TypeOK
<1> QED
  BY <1>2, <1>3, <1>4, WriteKeepsAnswers DEF BeatsAnswered

(* A new connection                                                        *)
LEMMA OpenBeats ==
    ASSUME Before, BeatInv, Connected \/ RedirectConnected
    PROVE  BeatsAnswered'
<1>1. PICK n \in Conns : /\ writer' = n /\ link[n] = "idle" /\ asked' = asked
                         /\ inbox' = [inbox EXCEPT ![n] = <<Frame(n, "ACCEPT")>>]
                         /\ \A i \in DOMAIN wire'[n] : wire'[n][i].op \notin Responses
  <2>1. CASE Connected
    <3>1. link[1] = "idle"
      BY <2>1, ThreeConns DEF Connected, Before, PromiseInv, Visited, Opened
    <3>2. wire' = wire /\ wire[1] = <<>>
      BY <2>1 DEF Connected, Before, Inductive, Tasks
    <3>3. \A i \in DOMAIN wire'[1] : wire'[1][i].op \notin Responses
      BY <3>2
    <3>4. /\ writer' = 1 /\ asked' = asked
          /\ inbox' = [inbox EXCEPT ![1] = <<Frame(1, "ACCEPT")>>]
      BY <2>1 DEF Connected
    <3> QED
      BY <3>1, <3>3, <3>4, ThreeConns
  <2>2. CASE RedirectConnected
    <3>1. target \in Conns /\ link[target] = "idle"
      BY <2>2 DEF RedirectConnected, Before, Inductive, Tasks, TypeOK, Conns, PromiseInv, Visited,
         Opened
    <3>2. wire' = [wire EXCEPT ![target] = Greeting(state, crypto)] /\ crypto \in Ciphers
      BY <2>2 DEF RedirectConnected, Before, Inductive, TypeOK
    <3>3. wire'[target] = Greeting(state, crypto)
      BY <3>1, <3>2 DEF Before, Inductive, TypeOK
    <3>4. \A i \in DOMAIN Greeting(state, crypto) :
             Greeting(state, crypto)[i].op \in {"CLIENT_REDIRECTED", "HOMEPAGE_REQUEST", "LOGIN"}
      <4> DEFINE g == Greeting(state, crypto)
      <4>1. /\ g \in Seq(ClientPackets)
            /\ g[1].op = "CLIENT_REDIRECTED"
            /\ state = "LOGIN" => Len(g) = 3 /\ g[2].op = "HOMEPAGE_REQUEST" /\ g[3].op = "LOGIN"
            /\ state # "LOGIN" => Len(g) = 1
        <5>1. \A op, sq : Packet(op, crypto, sq).op = op
          BY DEF Packet
        <5>2. /\ g \in Seq(ClientPackets)
              /\ g[1] = Packet("CLIENT_REDIRECTED", crypto, 0)
              /\ state = "LOGIN" => /\ Len(g) = 3
                                    /\ g[2] = Packet("HOMEPAGE_REQUEST", crypto, 0)
                                    /\ g[3] = Packet("LOGIN", crypto, 1)
              /\ state # "LOGIN" => Len(g) = 1
          BY <3>2, GreetingIs
        <5> HIDE DEF g
        <5> QED
          BY <5>1, <5>2
      <4> HIDE DEF g
      <4>2. DOMAIN g \subseteq {1, 2, 3} /\ (state # "LOGIN" => DOMAIN g = {1})
        <5>1. DOMAIN g = 1 .. Len(g) /\ Len(g) \in {1, 3}
          BY <4>1
        <5> QED
          BY <4>1, <5>1
      <4>3. \A i \in DOMAIN g : g[i].op \in {"CLIENT_REDIRECTED", "HOMEPAGE_REQUEST", "LOGIN"}
        BY <4>1, <4>2
      <4> QED
        BY <4>3 DEF g
    <3>5. \A i \in DOMAIN wire'[target] : wire'[target][i].op \notin Responses
      BY <3>3, <3>4, ResponsesAre
    <3> QED
      BY <2>2, <3>1, <3>5 DEF RedirectConnected
  <2> QED
    BY <2>1, <2>2
<1>2. inbox'[n] = <<Frame(n, "ACCEPT")>> /\ asked'[n] = <<>>
  BY <1>1 DEF BeatInv, Before, Inductive, TypeOK
<1>3. \A i \in DOMAIN inbox'[n] : inbox'[n][i].op \notin Beats
  <2>1. Frame(n, "ACCEPT").op = "ACCEPT"
    BY DEF Frame
  <2>2. \A i \in DOMAIN inbox'[n] : inbox'[n][i] = Frame(n, "ACCEPT")
    BY <1>2
  <2> QED
    BY <2>1, <2>2 DEF Beats
<1>4. Answered(wire'[n], inbox'[n], asked'[n])
  BY <1>1, <1>2, <1>3, NothingOwed
<1> QED
  BY <1>1, <1>4 DEF BeatsAnswered

(* The servers                                                             *)
LEMMA ServerBeats ==
    ASSUME Inductive, BeatsAnswered, NEW c \in Conns, Server(c)
    PROVE  BeatsAnswered'
<1>1. UNCHANGED <<reader, writer, wire>>
  BY DEF Server, React, Challenge, Handoff, Malformed, ServerClose, clientVars
<1> SUFFICES ASSUME reader = "reading", link'[writer] = "open"
             PROVE  Answered(wire[writer], inbox'[writer], asked'[writer])
  BY <1>1 DEF BeatsAnswered
<1>2. writer \in Conns
  BY DEF Inductive, Tasks, TypeOK, Conns
<1>3. /\ link[writer] = "open"
      /\ c # writer => inbox'[writer] = inbox[writer] /\ asked'[writer] = asked[writer]
  BY <1>2 DEF Server, React, Challenge, Handoff, Malformed, ServerClose, Inductive, TypeOK
<1>4. Answered(wire[writer], inbox[writer], asked[writer])
  BY <1>3 DEF BeatsAnswered
<1>5. inbox[c] \in Seq(ServerFrames) /\ wire[c] \in Seq(ClientPackets) /\ asked[c] \in Seq(Beats)
  BY DEF Inductive, TypeOK, Beats
<1> SUFFICES ASSUME c = writer, Answered(wire[c], inbox[c], asked[c])
             PROVE  Answered(wire[c], inbox'[c], asked'[c])
  BY <1>3, <1>4
<1>6. CASE React(c)
  <2> DEFINE op == wire[c][got[c] + 1].op
  <2>1. PICK ops \in Replies(c, op) : inbox' = [inbox EXCEPT ![c] = @ \o Frames(c, ops)]
    BY <1>6 DEF React
  <2>2. ops \in {<<"INFO">>, <<"TABLE">>, <<"EMPTY_TABLE">>, <<"GARBLED_TABLE">>, <<"REDIRECT">>,
                 <<"OTHER">>, <<"CONFIRM", "REDIRECT">>, <<"REJECT">>, <<"USER_ID">>,
                 <<"WORLD_LIST">>, <<>>}
    BY <2>1 DEF Replies, If
  <2>3. \A i \in DOMAIN ops : ops[i] \in ServerOps \ Beats
    BY <2>2 DEF ServerOps, Beats
  <2>4. DOMAIN ops = 1 .. Len(ops) /\ Len(ops) \in Nat
    <3> DEFINE S == ServerOps
    <3>1. /\ "INFO" \in S /\ "TABLE" \in S /\ "EMPTY_TABLE" \in S /\ "GARBLED_TABLE" \in S
          /\ "REDIRECT" \in S /\ "OTHER" \in S /\ "CONFIRM" \in S /\ "REJECT" \in S
          /\ "USER_ID" \in S /\ "WORLD_LIST" \in S
      BY DEF ServerOps
    <3> HIDE DEF S
    <3>2. /\ <<"INFO">> \in Seq(S) /\ <<"TABLE">> \in Seq(S) /\ <<"EMPTY_TABLE">> \in Seq(S)
          /\ <<"GARBLED_TABLE">> \in Seq(S) /\ <<"REDIRECT">> \in Seq(S)
          /\ <<"OTHER">> \in Seq(S) /\ <<"CONFIRM", "REDIRECT">> \in Seq(S)
          /\ <<"REJECT">> \in Seq(S) /\ <<"USER_ID">> \in Seq(S)
          /\ <<"WORLD_LIST">> \in Seq(S) /\ <<>> \in Seq(S)
      BY <3>1
    <3>3. ops \in Seq(S)
      BY <2>2, <3>2
    <3> QED
      BY <3>3
  <2> DEFINE new == Frames(c, ops)
  <2>5. /\ new \in Seq(ServerFrames)
        /\ \A i \in DOMAIN new : new[i].op \notin Beats
    <3>1. \A i \in DOMAIN ops : Frame(c, ops[i]) \in ServerFrames /\ Frame(c, ops[i]).op = ops[i]
      BY <2>3, FrameIs
    <3>2. new = [i \in DOMAIN ops |-> Frame(c, ops[i])]
      BY DEF Frames
    <3> HIDE DEF new
    <3> QED
      BY <2>3, <2>4, <3>1, <3>2
  <2> HIDE DEF new
  <2>6. inbox'[c] = inbox[c] \o new /\ asked'[c] = asked[c]
    BY <1>6, <2>1 DEF new, React, Inductive, TypeOK
  <2>7. /\ \A i \in DOMAIN inbox[c] : i \in DOMAIN inbox'[c] /\ inbox'[c][i] = inbox[c][i]
        /\ \A i \in DOMAIN inbox'[c] :
               i \in DOMAIN inbox[c] \/ \E j \in DOMAIN new : inbox'[c][i] = new[j]
    <3> DEFINE both == inbox[c] \o new
    <3>0. inbox[c] \in Seq(ServerFrames) /\ new \in Seq(ServerFrames)
      BY <1>5, <2>5
    <3>1. /\ \A i \in DOMAIN inbox[c] : i \in DOMAIN both /\ both[i] = inbox[c][i]
          /\ \A i \in DOMAIN both :
                 i \in DOMAIN inbox[c] \/ \E j \in DOMAIN new : both[i] = new[j]
      BY <3>0, ConcatIs
    <3>2. inbox'[c] = both
      BY <2>6
    <3> HIDE DEF both
    <3> QED
      BY <3>1, <3>2
  <2>8. \A i \in DOMAIN inbox'[c] : i \in DOMAIN inbox[c] \/ inbox'[c][i].op \notin Beats
    BY <2>5, <2>7
  <2>9. Answered(wire[c], inbox'[c], asked[c])
    BY <1>5, <2>7, <2>8, MoreKeepsAnswers
  <2> QED
    BY <2>6, <2>9
<1>7. CASE Challenge(c)
  <2>1. PICK op \in Beats : /\ inbox' = [inbox EXCEPT ![c] = Append(@, Frame(c, op))]
                            /\ asked' = [asked EXCEPT ![c] = Append(@, op)]
    BY <1>7 DEF Challenge, Beats
  <2>2. Frame(c, op).op = op
    BY DEF Frame
  <2>3. inbox'[c] = Append(inbox[c], Frame(c, op)) /\ asked'[c] = Append(asked[c], op)
    BY <2>1 DEF Inductive, TypeOK
  <2>4. Answered(wire[c], Append(inbox[c], Frame(c, op)), Append(asked[c], Frame(c, op).op))
    BY <1>5, <2>2, ChallengeKeepsAnswers
  <2> QED
    BY <2>2, <2>3, <2>4
<1>8. CASE Handoff(c) \/ Malformed(c)
  <2>1. PICK op \in {"REDIRECT", "BAD_BODY", "BAD_FRAME"} :
           inbox' = [inbox EXCEPT ![c] = Append(@, Frame(c, op))]
    BY <1>8 DEF Handoff, Malformed, If
  <2>2. inbox'[c] = Append(inbox[c], Frame(c, op)) /\ asked'[c] = asked[c]
    BY <1>8, <2>1 DEF Handoff, Malformed, Inductive, TypeOK
  <2>3. Frame(c, op).op \notin Beats
    BY DEF Frame, Beats
  <2>4. /\ \A i \in DOMAIN inbox[c] : i \in DOMAIN inbox'[c] /\ inbox'[c][i] = inbox[c][i]
        /\ \A i \in DOMAIN inbox'[c] : i \in DOMAIN inbox[c] \/ inbox'[c][i] = Frame(c, op)
    BY <1>5, <2>2
  <2>5. \A i \in DOMAIN inbox'[c] : i \in DOMAIN inbox[c] \/ inbox'[c][i].op \notin Beats
    BY <2>3, <2>4
  <2>6. Answered(wire[c], inbox'[c], asked[c])
    BY <1>5, <2>4, <2>5, MoreKeepsAnswers
  <2> QED
    BY <2>2, <2>6
<1>9. CASE ServerClose(c)
  BY <1>9 DEF ServerClose, Inductive, TypeOK
<1> QED
  BY <1>6, <1>7, <1>8, <1>9 DEF Server

LEMMA DispatchBeats ==
    ASSUME Inductive, BeatsAnswered, Dispatch
    PROVE  BeatsAnswered'
<1> USE DEF mainVars, objectVars, netVars
<1>1. CASE HandleChallenge
  BY <1>1, ChallengeAnswered
<1>2. CASE HandleAccept \/ HandleConnectionInfo \/ HandleServerTable
  <2>1. PICK ops \in SUBSET (ServerOps \ Beats) : Reading(ops)
    <3>1. {"ACCEPT"} \subseteq ServerOps \ Beats /\ {"INFO"} \subseteq ServerOps \ Beats
          /\ {"TABLE"} \cup (IF ServerIdSet THEN {"EMPTY_TABLE"} ELSE {}) \subseteq ServerOps \ Beats
      BY DEF ServerOps, Beats
    <3> QED
      BY <1>2, <3>1 DEF HandleAccept, HandleConnectionInfo, HandleServerTable
  <2>2. UNCHANGED <<writer, link, asked>>
    BY <1>2 DEF HandleAccept, HandleConnectionInfo, HandleServerTable
  <2>3. UNCHANGED wire \/ \E op \in ClientOps \ Responses, cr \in Ciphers : Send(op, cr)
    <3>1. crypto \in Ciphers
      BY DEF Inductive, TypeOK
    <3>2. {"VERSION", "TABLE_REQUEST", "SERVER_ID"} \subseteq ClientOps \ Responses
      BY ResponsesAre DEF ClientOps
    <3>3. CASE HandleConnectionInfo
      <4>1. crypto' \in Ciphers
        BY <2>1, <3>3, FrontFrame DEF HandleConnectionInfo, InfoCrypto, Ciphers, Conns
      <4> QED
        BY <3>2, <3>3, <4>1 DEF HandleConnectionInfo
    <3> QED
      BY <1>2, <3>1, <3>2, <3>3 DEF HandleAccept, HandleServerTable
  <2> QED
    BY <2>1, <2>2, <2>3, SkipBeats
<1>3. CASE HandleUserId \/ IgnoreFrame \/ HandleLoginMessage
  <2>1. PICK ops \in {{"USER_ID"}, {"OTHER"}, {"CONFIRM"}, {"REJECT"}} : Reading(ops)
    BY <1>3 DEF HandleUserId, IgnoreFrame, HandleLoginMessage
  <2>2. ops \cap Beats = {}
    BY DEF Beats
  <2>3. UNCHANGED <<writer, link, asked, wire>>
    BY <1>3 DEF HandleUserId, IgnoreFrame, HandleLoginMessage
  <2> QED
    BY <2>1, <2>2, <2>3, SkipBeats
<1>4. CASE \/ HandleRaisesValueError \/ HandleCrashes \/ HandleRedirect
           \/ HandleWorldList \/ ReadBadFrame \/ ReadClosed
  <2>1. reader' # "reading"
    BY <1>4 DEF HandleRaisesValueError, HandleCrashes, Crashes, HandleRedirect, HandleWorldList,
       ReadBadFrame, ReadClosed, Ends
  <2> QED
    BY <2>1 DEF BeatsAnswered
<1> QED
  BY <1>1, <1>2, <1>3, <1>4 DEF Dispatch

(* A socket that has been opened is never idle again.                      *)
LEMMA IdleUnasked ==
    ASSUME Inductive, BeatInv, [Next]_vars, NEW c \in Conns, link'[c] = "idle"
    PROVE  asked'[c] = <<>>
<1> USE DEF mainVars, objectVars, netVars
<1>1. link \in [Conns -> {"idle", "open", "cut", "moved", "closed"}]
      /\ asked \in [Conns -> Seq({"HEARTBEAT", "TICKS"})]
  BY DEF Inductive, TypeOK
<1>2. link[c] = "idle" /\ asked'[c] = asked[c]
  <2>1. CASE UNCHANGED <<link, asked>>
    BY <2>1
  <2>2. CASE \E n \in Conns, how \in {"open", "cut", "moved", "closed"} :
                link' = [link EXCEPT ![n] = how] /\ asked' = asked
    BY <1>1, <2>2
  <2>3. CASE \E n \in Conns : Challenge(n)
    BY <1>1, <2>3 DEF Challenge
  <2>4. CASE Main \/ Opening \/ Timeout \/ Interrupt
    <3>1. CASE Connected
      BY <2>2, <3>1, ThreeConns DEF Connected
    <3>2. CASE Close
      <4>1. CASE writer = 0
        BY <2>1, <3>2, <4>1 DEF Close
      <4>2. CASE writer # 0
        <5>1. writer \in Conns
          BY <4>2 DEF Inductive, TypeOK, Conns
        <5> QED
          BY <2>2, <3>2, <4>2, <5>1 DEF Close, SocketClosed
      <4> QED
        BY <4>1, <4>2
    <3>3. CASE \/ FetchStart \/ MainWake \/ Reap \/ Logout \/ Finish \/ ConnectFails \/ Timeout
               \/ Interrupt
      BY <2>1, <3>3 DEF FetchStart, MainWake, Reap, Logout, Finish, ConnectFails, Timeout,
         Interrupt, InterruptEarly, InterruptWait
    <3> QED
      BY <2>4, <3>1, <3>2, <3>3 DEF Main, Opening
  <2>5. CASE Dispatch
    <3>1. CASE HandleRedirect
      <4>1. writer \in Conns
        BY <3>1, FrontFrame DEF HandleRedirect
      <4> QED
        BY <2>1, <2>2, <3>1, <4>1 DEF HandleRedirect, SocketClosed
    <3>2. CASE ~HandleRedirect
      BY <2>1, <2>5, <3>2 DEF Dispatch, HandleAccept, HandleConnectionInfo, HandleServerTable,
         HandleRaisesValueError, HandleCrashes, Crashes, HandleLoginMessage, HandleUserId,
         HandleChallenge, HandleWorldList, IgnoreFrame, ReadBadFrame, ReadClosed
    <3> QED
      BY <3>1, <3>2
  <2>6. CASE Follow
    <3>1. CASE RedirectConnected
      <4>1. target \in Conns
        BY <3>1 DEF RedirectConnected, Inductive, Tasks, TypeOK, Conns
      <4> QED
        BY <2>2, <3>1, <4>1 DEF RedirectConnected
    <3> QED
      BY <2>1, <2>6, <3>1 DEF Follow, OldSocketClosed, RedirectRefused
  <2>7. CASE RequestWorldList \/ UNCHANGED vars
    BY <2>1, <2>7 DEF RequestWorldList, vars
  <2>8. CASE \E n \in Conns : React(n) \/ Handoff(n) \/ Malformed(n) \/ ServerClose(n)
    BY <2>1, <2>2, <2>8 DEF React, Handoff, Malformed, ServerClose
  <2> QED
    BY <2>3, <2>4, <2>5, <2>6, <2>7, <2>8 DEF Next, Server
<1> QED
  BY <1>2 DEF BeatInv

LEMMA BeatStep ==
    ASSUME Before, BeatInv, [Next]_vars
    PROVE  BeatInv'
<1> USE DEF mainVars, objectVars, netVars
<1>0. \A c \in Conns : link'[c] = "idle" => asked'[c] = <<>>
  BY IdleUnasked DEF Before
<1> SUFFICES BeatsAnswered'
  BY <1>0 DEF BeatInv
<1>1. CASE Dispatch
  BY <1>1, DispatchBeats DEF Before, BeatInv
<1>2. CASE Connected \/ RedirectConnected
  BY <1>2, OpenBeats
<1>3. CASE RequestWorldList
  BY <1>3, WriteBeats DEF Before, BeatInv
<1>4. CASE \E c \in Conns : Server(c)
  BY <1>4, ServerBeats DEF Before, BeatInv
<1>5. CASE Main \/ ConnectFails \/ Timeout \/ Interrupt \/ OldSocketClosed \/ RedirectRefused
           \/ UNCHANGED vars
  <2>1. CASE reader' # "reading"
    BY <2>1 DEF BeatsAnswered
  <2>2. CASE reader' = "reading"
    <3>1. CASE Main
      <4>1. ~MainWake
        BY <2>2 DEF MainWake
      <4>2. ~Reap /\ ~Logout /\ ~Close /\ ~Finish
        <5>1. ASSUME Reap \/ Logout \/ Close \/ Finish PROVE FALSE
          <6>1. reader = "reading" /\ main # "waiting"
            BY <2>2, <5>1 DEF Reap, Logout, Close, Finish
          <6> QED
            BY <6>1 DEF Before, Inductive, Tasks
        <5> QED
          BY <5>1
      <4> QED
        BY <3>1, <4>1, <4>2 DEF Main, FetchStart, BeatInv, BeatsAnswered
    <3>2. CASE ConnectFails \/ Timeout \/ Interrupt \/ UNCHANGED vars
      <4>1. UNCHANGED <<reader, writer, link, inbox, wire, asked>>
        BY <3>2 DEF ConnectFails, Timeout, Interrupt, InterruptEarly, InterruptWait, vars
      <4> QED
        BY <4>1 DEF BeatInv, BeatsAnswered
    <3>3. CASE OldSocketClosed \/ RedirectRefused
      BY <2>2, <3>3 DEF OldSocketClosed, RedirectRefused, Ends
    <3> QED
      BY <1>5, <3>1, <3>2, <3>3
  <2> QED
    BY <2>1, <2>2
<1> QED
  BY <1>1, <1>2, <1>3, <1>4, <1>5 DEF Next, Opening, Follow

(* Each challenge is answered once, in order and in kind, on the           *)
(* connection it came from, whatever the requester writes between and      *)
(* however many connections a run goes through: a new connection owes      *)
(* nothing, the reader trades the first challenge for the next answer.     *)
THEOREM BeatsAlwaysAnswered == Spec => []BeatsAnswered
<1>1. Init => BeatInv
  BY DEF Init, BeatInv, BeatsAnswered
<1>2. Before /\ BeatInv /\ [Next]_vars => BeatInv'
  BY BeatStep
<1>3. BeatInv => BeatsAnswered
  BY DEF BeatInv
<1> QED
  BY <1>1, <1>2, <1>3, AlwaysBefore, PTL DEF Spec
=============================================================================
