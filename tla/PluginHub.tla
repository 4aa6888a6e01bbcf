------------------------------ MODULE PluginHub ------------------------------
(***************************************************************************)
(* The plugin hub of typeweld-ls (typeweld-ls/src/plugin.rs): the main     *)
(* loop pushes contract snapshots, save requests and queries to the        *)
(* clients connected over TCP; one thread per connection replays the       *)
(* stored snapshot, registers the session and then reads what the client   *)
(* sends.                                                                  *)
(*                                                                         *)
(* The atomic steps are those between which the code releases a lock or    *)
(* may block.  The snapshot lock is held for the whole replay and the whole*)
(* store, each of which is one step; the sessions lock is held by the main *)
(* loop from the first to the last write of a round, and the writes are    *)
(* steps of their own, because a write blocks while the socket is full.    *)
(***************************************************************************)
EXTENDS Integers, Sequences, FiniteSets

CONSTANTS
  Plugins,        \* connections of TypeScript plugins
  Editors,        \* connections of editor extensions
  Capacity,       \* lines a socket holds before a write to it blocks
  MaxSnapshot,    \* bound on the snapshots stored
  MaxQuery,       \* bound on the queries asked
  MaxSave         \* bound on the save requests

ASSUME ClientsAssumption == Plugins \cap Editors = {}
ASSUME HubBoundsAssumption ==
  /\ Capacity \in Nat \ {0}
  /\ MaxSnapshot \in Nat /\ MaxQuery \in Nat /\ MaxSave \in Nat

Clients == Plugins \cup Editors

VARIABLES
  snapshot,      \* the stored snapshot line, by its number; 0 is None
  sessions,      \* the registered sessions, oldest first
  thread,        \* where the thread of each connection is
  alive,         \* the flag of each session
  waiters,       \* the queries in each session's table of pending answers
  main, at,      \* what the main loop is doing, and at which session
  query, saves,  \* numbers of the last query and the last save request
  results,       \* how each query ended
  channel,       \* queries whose one-shot channel holds an answer
  socket,        \* lines written to each client, not read by it
  upstream,      \* lines sent by each client, not read by its thread
  connected,     \* the client's end of the connection is open
  replica,       \* the snapshot each plugin answers its hooks from
  asked,         \* queries a plugin has read and not answered
  replied,       \* queries some plugin has answered
  raced          \* plugins that missed a snapshot stored while they registered

hubVars == <<snapshot, sessions, thread, alive, waiters>>
mainVars == <<main, at, query, saves, results, channel>>
clientVars == <<socket, upstream, connected, replica, asked, replied>>
vars == <<hubVars, mainVars, clientVars, raced>>

Line == [kind : {"snapshot", "query", "saveFiles"}, n : Nat]

Write(c, kind, n) == [socket EXCEPT ![c] = Append(@, [kind |-> kind, n |-> n])]
Room(c) == Len(socket[c]) < Capacity

TypeOK ==
  /\ snapshot \in 0..MaxSnapshot
  /\ sessions \in Seq(Clients)
  /\ thread \in [Clients -> {"hello", "replaying", "registering", "serving", "ended"}]
  /\ alive \in [Clients -> BOOLEAN]
  /\ waiters \in [Clients -> SUBSET (1..MaxQuery)]
  /\ main \in {"idle", "storing", "pushing", "saving", "asking", "waiting"}
  /\ at \in Nat
  /\ query \in 0..MaxQuery
  /\ saves \in 0..MaxSave
  /\ results \in [1..MaxQuery -> {"open", "answer", "error"}]
  /\ channel \subseteq 1..MaxQuery
  /\ socket \in [Clients -> Seq(Line)]
  /\ \A c \in Clients : Len(socket[c]) <= Capacity
  /\ upstream \in [Clients -> Seq(1..MaxQuery)]
  /\ connected \in [Clients -> BOOLEAN]
  /\ replica \in [Plugins -> 0..MaxSnapshot]
  /\ asked \in [Plugins -> SUBSET (1..MaxQuery)]
  /\ replied \subseteq 1..MaxQuery
  /\ raced \subseteq Plugins

Init ==
  /\ snapshot = 0 /\ sessions = <<>>
  /\ thread = [c \in Clients |-> "hello"]
  /\ alive = [c \in Clients |-> FALSE]
  /\ waiters = [c \in Clients |-> {}]
  /\ main = "idle" /\ at = 0 /\ query = 0 /\ saves = 0
  /\ results = [q \in 1..MaxQuery |-> "open"] /\ channel = {}
  /\ socket = [c \in Clients |-> <<>>] /\ upstream = [c \in Clients |-> <<>>]
  /\ connected = [c \in Clients |-> TRUE]
  /\ replica = [p \in Plugins |-> 0] /\ asked = [p \in Plugins |-> {}]
  /\ replied = {} /\ raced = {}

-----------------------------------------------------------------------------
(* serve_plugin, the thread of a connection.                               *)
To(c, stage) == thread' = [thread EXCEPT ![c] = stage]

(* The hello is checked; a plugin goes on to the replay.  A client that    *)
(* sends a bad hello, or none, is dropped.                                 *)
Hello(c) ==
  /\ thread[c] = "hello"
  /\ \/ connected[c] /\ To(c, IF c \in Plugins THEN "replaying" ELSE "registering")
     \/ To(c, "ended")
  /\ UNCHANGED <<snapshot, sessions, alive, waiters, mainVars, clientVars, raced>>

(* Mutant: nothing is replayed.                                            *)
ReplayNothing(c) ==
  /\ thread[c] = "replaying"
  /\ To(c, "registering")
  /\ UNCHANGED <<snapshot, sessions, alive, waiters, mainVars, clientVars, raced>>

(* The stored snapshot is written under the snapshot lock.                 *)
Replay(c) ==
  /\ thread[c] = "replaying"
  /\ \/ /\ snapshot = 0
        /\ To(c, "registering")
        /\ UNCHANGED socket
     \/ /\ snapshot # 0 /\ connected[c] /\ Room(c)
        /\ socket' = Write(c, "snapshot", snapshot)
        /\ To(c, "registering")
     \/ /\ snapshot # 0 /\ ~connected[c]
        /\ To(c, "ended")
        /\ UNCHANGED socket
  /\ UNCHANGED <<snapshot, sessions, alive, waiters, mainVars, upstream, connected,
                 replica, asked, replied, raced>>

(* Mutant: the lock of the first round is never given back.                *)
SessionsLockLeaks == at > 0

(* The main loop holds the sessions lock during a round of writes.         *)
SessionsLocked == main \in {"pushing", "saving", "asking"}

Register(c) ==
  /\ thread[c] = "registering"
  /\ ~SessionsLocked
  /\ sessions' = Append(sessions, c)
  /\ alive' = [alive EXCEPT ![c] = TRUE]
  /\ To(c, "serving")
  /\ UNCHANGED <<snapshot, waiters, mainVars, clientVars, raced>>

(* Mutant: any answer counts as one to the current query.                  *)
ServeAnyAnswer(c) ==
  /\ thread[c] = "serving" /\ upstream[c] # <<>>
  /\ waiters' = [waiters EXCEPT ![c] = @ \ {query}]
  /\ channel' = IF query \in waiters[c] THEN channel \cup {query} ELSE channel
  /\ upstream' = [upstream EXCEPT ![c] = Tail(@)]
  /\ UNCHANGED <<snapshot, sessions, thread, alive, main, at, query, saves, results,
                 socket, connected, replica, asked, replied, raced>>

(* An answer is routed by its id to the channel of its query, if the table *)
(* still has it; the receiver of a query that timed out is gone.           *)
ServeAnswer(c) ==
  /\ thread[c] = "serving"
  /\ upstream[c] # <<>>
  /\ LET q == Head(upstream[c]) IN
       /\ waiters' = [waiters EXCEPT ![c] = @ \ {q}]
       /\ channel' = IF q \in waiters[c] THEN channel \cup {q} ELSE channel
  /\ upstream' = [upstream EXCEPT ![c] = Tail(@)]
  /\ UNCHANGED <<snapshot, sessions, thread, alive, main, at, query, saves, results,
                 socket, connected, replica, asked, replied, raced>>

ServeEof(c) ==
  /\ thread[c] = "serving"
  /\ upstream[c] = <<>> /\ ~connected[c]
  /\ alive' = [alive EXCEPT ![c] = FALSE]
  /\ To(c, "ended")
  /\ UNCHANGED <<snapshot, sessions, waiters, mainVars, clientVars, raced>>

-----------------------------------------------------------------------------
(* The main loop.                                                          *)

(* set_snapshot stores the line ...                                        *)
SetSnapshot ==
  /\ main = "idle" /\ snapshot < MaxSnapshot
  /\ snapshot' = snapshot + 1
  /\ main' = "storing"
  /\ raced' = {p \in Plugins : thread[p] = "registering"}
  /\ UNCHANGED <<sessions, thread, alive, waiters, at, query, saves, results, channel,
                 clientVars>>

(* ... and then takes the sessions lock.                                   *)
LockSessions ==
  /\ main = "storing"
  /\ main' = "pushing" /\ at' = 1
  /\ raced' = {p \in raced : thread[p] = "registering"}
  /\ UNCHANGED <<hubVars, query, saves, results, channel, clientVars>>

(* request_saves takes the sessions lock.                                  *)
RequestSaves ==
  /\ main = "idle" /\ saves < MaxSave
  /\ saves' = saves + 1
  /\ main' = "saving" /\ at' = 1
  /\ UNCHANGED <<hubVars, query, results, channel, clientVars, raced>>

(* Whom a round writes to: the live sessions of the right kind.            *)
Addressed(c) ==
  /\ alive[c]
  /\ c \in IF main = "pushing" THEN Plugins ELSE Editors

(* One turn of the loop of set_snapshot or request_saves.  A write to a    *)
(* client that is gone fails, and the failure is ignored.                  *)
WriteNext ==
  /\ main \in {"pushing", "saving"}
  /\ at <= Len(sessions)
  /\ at' = at + 1
  /\ LET c == sessions[at] IN
     \/ /\ Addressed(c) /\ connected[c] /\ Room(c)
        /\ socket' = IF main = "pushing" THEN Write(c, "snapshot", snapshot)
                                         ELSE Write(c, "saveFiles", saves)
     \/ /\ ~(Addressed(c) /\ connected[c])
        /\ UNCHANGED socket
  /\ UNCHANGED <<hubVars, main, query, saves, results, channel, upstream, connected,
                 replica, asked, replied, raced>>

RoundEnds ==
  /\ main \in {"pushing", "saving"}
  /\ at > Len(sessions)
  /\ main' = "idle"
  /\ UNCHANGED <<hubVars, at, query, saves, results, channel, clientVars, raced>>

(* query_rename_locations: the youngest live plugin session is asked.      *)
Youngest(i) ==
  /\ sessions[i] \in Plugins /\ alive[sessions[i]]
  /\ \A j \in i + 1..Len(sessions) : ~(sessions[j] \in Plugins /\ alive[sessions[j]])

AskNobody ==
  /\ main = "idle" /\ query < MaxQuery
  /\ \A i \in 1..Len(sessions) : ~Youngest(i)
  /\ query' = query + 1
  /\ results' = [results EXCEPT ![query + 1] = "error"]
  /\ UNCHANGED <<hubVars, main, at, saves, channel, clientVars, raced>>

(* The waiter is entered before the query is written.                      *)
Ask ==
  /\ main = "idle" /\ query < MaxQuery
  /\ \E i \in 1..Len(sessions) :
       /\ Youngest(i)
       /\ at' = i
       /\ waiters' = [waiters EXCEPT ![sessions[i]] = @ \cup {query + 1}]
  /\ query' = query + 1
  /\ main' = "asking"
  /\ UNCHANGED <<snapshot, sessions, thread, alive, saves, results, channel,
                 clientVars, raced>>

AskWrite ==
  /\ main = "asking"
  /\ LET c == sessions[at] IN
     \/ /\ connected[c] /\ Room(c)
        /\ socket' = Write(c, "query", query)
        /\ main' = "waiting"
        /\ UNCHANGED results
     \/ /\ ~connected[c]
        /\ main' = "idle"
        /\ results' = [results EXCEPT ![query] = "error"]
        /\ UNCHANGED socket
  /\ UNCHANGED <<hubVars, at, query, saves, channel, upstream, connected, replica,
                 asked, replied, raced>>

Answered ==
  /\ main = "waiting" /\ query \in channel
  /\ main' = "idle"
  /\ results' = [results EXCEPT ![query] = "answer"]
  /\ UNCHANGED <<hubVars, at, query, saves, channel, clientVars, raced>>

(* Mutant: recv without a timeout.                                         *)
NeverTimesOut == FALSE

(* recv_timeout; the waiter stays in the session's table.                  *)
TimesOut ==
  /\ main = "waiting"
  /\ main' = "idle"
  /\ results' = [results EXCEPT ![query] = "error"]
  /\ UNCHANGED <<hubVars, at, query, saves, channel, clientVars, raced>>

-----------------------------------------------------------------------------
(* The clients: they read, answer what they were asked, and go away.       *)
ClientReads(c) ==
  /\ connected[c] /\ socket[c] # <<>>
  /\ LET line == Head(socket[c]) IN
       /\ replica' = IF line.kind = "snapshot"
                     THEN [replica EXCEPT ![c] = line.n] ELSE replica
       /\ asked' = IF line.kind = "query"
                   THEN [asked EXCEPT ![c] = @ \cup {line.n}] ELSE asked
  /\ socket' = [socket EXCEPT ![c] = Tail(@)]
  /\ UNCHANGED <<hubVars, mainVars, upstream, connected, replied, raced>>

PluginReplies(c, q) ==
  /\ connected[c] /\ q \in asked[c]
  /\ asked' = [asked EXCEPT ![c] = @ \ {q}]
  /\ upstream' = [upstream EXCEPT ![c] = Append(@, q)]
  /\ replied' = replied \cup {q}
  /\ UNCHANGED <<hubVars, mainVars, socket, connected, replica, raced>>

ClientLeaves(c) ==
  /\ connected[c]
  /\ connected' = [connected EXCEPT ![c] = FALSE]
  /\ socket' = [socket EXCEPT ![c] = <<>>]
  /\ UNCHANGED <<hubVars, mainVars, upstream, replica, asked, replied, raced>>

-----------------------------------------------------------------------------
Thread(c) == Hello(c) \/ Replay(c) \/ Register(c) \/ ServeAnswer(c) \/ ServeEof(c)

(* The rounds the main loop has begun; beginning one is up to the editor.  *)
MainGoesOn == LockSessions \/ WriteNext \/ RoundEnds \/ AskWrite \/ Answered \/ TimesOut
MainBegins == SetSnapshot \/ RequestSaves \/ AskNobody \/ Ask

Next ==
  \/ MainBegins \/ MainGoesOn
  \/ \E c \in Clients : Thread(c) \/ ClientReads(c) \/ ClientLeaves(c)
  \/ \E p \in Plugins : \E q \in asked[p] : PluginReplies(p, q)

Spec == Init /\ [][Next]_vars

(* The scheduler runs the main loop and the threads; that a client reads   *)
(* its socket is an assumption of its own.                                 *)
ThreadsRun == WF_vars(MainGoesOn) /\ \A c \in Clients : WF_vars(Thread(c))
ClientsRead == \A c \in Clients : WF_vars(ClientReads(c))

FairSpec == Spec /\ ThreadsRun /\ ClientsRead

-----------------------------------------------------------------------------
(* With everything written and read, a live plugin answers its hooks from  *)
(* the latest snapshot, unless the whole of that push, from the store to   *)
(* taking the sessions lock, fell between the replay and the registration  *)
(* of the plugin's session.                                                *)
Settled(p) == main = "idle" /\ alive[p] /\ connected[p] /\ socket[p] = <<>>
CaughtUpUnlessRaced ==
  \A p \in Plugins : Settled(p) /\ p \notin raced => replica[p] = snapshot

(* Where a question is: not answered yet by c, or the answer not read yet. *)
Holds(c, q) ==
  /\ connected[c]
  /\ \/ q \in asked[c]
     \/ \E i \in 1..Len(socket[c]) : socket[c][i] = [kind |-> "query", n |-> q]
Sent(c, q) == \E i \in 1..Len(upstream[c]) : upstream[c][i] = q

(* A query ends with an answer only if a plugin answered that very query:  *)
(* the late answer to one that timed out never ends a later one.  And no   *)
(* answer is lost on its way: while the main loop waits and has not got it,*)
(* the table of the session it asked has the waiter, and either the plugin *)
(* has the question or has sent the answer, and the thread that will route *)
(* it still serves; or the plugin has left without answering.  Nobody tells*)
(* the main loop of that, so that then only the timeout ends the wait      *)
(* (query_rename_locations, the end of serve_plugin).                      *)
AnswersRouted ==
  /\ \A q \in 1..MaxQuery : results[q] = "answer" => q \in replied
  /\ main = "waiting" /\ query \notin channel =>
       LET c == sessions[at] IN
         /\ query \in waiters[c]
         /\ IF Holds(c, query) \/ Sent(c, query)
            THEN thread[c] = "serving" ELSE ~connected[c]

(* Every connection that got past its hello is registered or dropped, and  *)
(* every round the main loop begins ends, when clients read their sockets. *)
ConnectionsServed ==
  \A c \in Clients : thread[c] = "registering" ~> thread[c] \in {"serving", "ended"}
RoundsEnd == main # "idle" ~> main = "idle"

(* plugin.rs:56: the latest snapshot is replayed to every plugin that      *)
(* connects.                                                               *)
EveryPluginCatchesUp ==
  \A p \in Plugins : Settled(p) => replica[p] = snapshot

=============================================================================
