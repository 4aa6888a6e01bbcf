--------------------------- MODULE PluginHub_proofs ---------------------------
(***************************************************************************)
(* Proofs about PluginHub, for any number of clients and any capacity of   *)
(* their sockets.                                                          *)
(*                                                                         *)
(* AnswersRouted follows an answer back to its plugin (Genuine), the main  *)
(* loop's query to its waiter (Routable) and to the plugin and back        *)
(* (Underway), and a thread to its end (Drained).  CaughtUpUnlessRaced is  *)
(* about a moment at which all is read; Informed says for every moment     *)
(* where the latest snapshot is on its way to a plugin: in its socket, in  *)
(* the rest of the round being written, or in the round about to begin.    *)
(***************************************************************************)
EXTENDS PluginHub, SequenceTheorems, TLAPS

USE ClientsAssumption, HubBoundsAssumption

(* The stages of the threads, and what each says of the session.           *)
Staged ==
  /\ \A c \in Clients :
       /\ alive[c] <=> thread[c] = "serving"
       /\ thread[c] = "serving" => \E i \in 1..Len(sessions) : sessions[i] = c
       /\ thread[c] \in {"hello", "replaying"} => socket[c] = <<>>
  /\ \A i \in 1..Len(sessions) : thread[sessions[i]] \in {"serving", "ended"}

(* Only queries that were asked and snapshots that were stored are written.*)
LinesKnown ==
  \A c \in Clients : \A i \in DOMAIN socket[c] :
    /\ socket[c][i].kind = "query" => socket[c][i].n \in 1..MaxQuery
    /\ socket[c][i].kind = "snapshot" => socket[c][i].n \in 0..MaxSnapshot

(* Where the main loop is in the list of sessions.                         *)
AtSession ==
  /\ main \in {"pushing", "saving"} => at >= 1
  /\ main \in {"asking", "waiting"} => at \in 1..Len(sessions) /\ query \in 1..MaxQuery

TypeInv == TypeOK /\ Staged /\ LinesKnown /\ AtSession

-----------------------------------------------------------------------------
LEMMA InitType == Init => TypeInv
<1> SUFFICES ASSUME Init PROVE TypeInv
  OBVIOUS
<1>1. TypeOK
  BY DEF Init, TypeOK
<1>2. Staged /\ LinesKnown /\ AtSession
  BY DEF Init, Staged, LinesKnown, AtSession
<1> QED
  BY <1>1, <1>2 DEF TypeInv

LEMMA ListedPastRegistration ==
  ASSUME TypeInv, NEW i \in 1..Len(sessions)
  PROVE  sessions[i] \in Clients /\ thread[sessions[i]] \in {"serving", "ended"}
<1>1. sessions[i] \in Clients
  BY DEF TypeInv, TypeOK
<1> QED
  BY <1>1 DEF TypeInv, Staged

(* A line is written to a socket that has room.                            *)
LEMMA WriteType ==
  ASSUME TypeInv, NEW c \in Clients, Room(c), NEW kind \in {"snapshot", "query", "saveFiles"},
         NEW n \in Nat, socket' = Write(c, kind, n),
         kind = "query" => n \in 1..MaxQuery,
         kind = "snapshot" => n \in 0..MaxSnapshot
  PROVE  /\ socket' \in [Clients -> Seq(Line)]
         /\ \A d \in Clients : Len(socket'[d]) <= Capacity
         /\ \A d \in Clients \ {c} : socket'[d] = socket[d]
         /\ LinesKnown'
<1> DEFINE line == [kind |-> kind, n |-> n]
<1>1. line \in Line /\ socket[c] \in Seq(Line)
  BY DEF Line, TypeInv, TypeOK
<1>2. /\ socket'[c] = Append(socket[c], line)
      /\ \A d \in Clients \ {c} : socket'[d] = socket[d]
      /\ socket' = [socket EXCEPT ![c] = Append(socket[c], line)]
  BY DEF Write, TypeInv, TypeOK
<1> HIDE DEF line
<1>3. /\ Append(socket[c], line) \in Seq(Line)
      /\ Len(Append(socket[c], line)) = Len(socket[c]) + 1
      /\ \A i \in 1..Len(socket[c]) + 1 :
           Append(socket[c], line)[i] = IF i <= Len(socket[c]) THEN socket[c][i] ELSE line
      /\ DOMAIN socket[c] = 1..Len(socket[c])
      /\ DOMAIN Append(socket[c], line) = 1..Len(socket[c]) + 1
      /\ Len(socket[c]) \in Nat
  BY <1>1
<1>4. socket' \in [Clients -> Seq(Line)]
  BY <1>1, <1>2, <1>3 DEF TypeInv, TypeOK
<1>5. \A d \in Clients : Len(socket'[d]) <= Capacity
  BY <1>2, <1>3 DEF TypeInv, TypeOK, Room
<1>6. \A d \in Clients : \A i \in DOMAIN socket'[d] :
        /\ socket'[d][i].kind = "query" => socket'[d][i].n \in 1..MaxQuery
        /\ socket'[d][i].kind = "snapshot" => socket'[d][i].n \in 0..MaxSnapshot
  <2> TAKE d \in Clients
  <2> TAKE i \in DOMAIN socket'[d]
  <2>1. CASE d = c /\ i = Len(socket[c]) + 1
    BY <1>2, <1>3, <2>1 DEF line
  <2>2. CASE ~(d = c /\ i = Len(socket[c]) + 1)
    <3>1. i \in DOMAIN socket[d] /\ socket'[d][i] = socket[d][i]
      BY <1>2, <1>3, <2>2
    <3> QED
      BY <3>1 DEF TypeInv, LinesKnown
  <2> QED
    BY <2>1, <2>2
<1> QED
  BY <1>2, <1>4, <1>5, <1>6 DEF LinesKnown

(* The threads of the connections.                                         *)
LEMMA ThreadType ==
  ASSUME TypeInv, NEW c \in Clients, Thread(c)
  PROVE  TypeInv'
<1>1. CASE Hello(c)
  <2>1. TypeOK'
    BY <1>1 DEF TypeInv, TypeOK, Hello, To, mainVars, clientVars
  <2>2. \A i \in 1..Len(sessions) : sessions[i] \in Clients \ {c}
    BY <1>1, ListedPastRegistration DEF Hello
  <2>5. /\ UNCHANGED <<sessions, alive, socket>>
        /\ thread'[c] \in {"replaying", "registering", "ended"} /\ thread[c] = "hello"
        /\ thread'[c] = "replaying" => socket[c] = <<>>
        /\ \A d \in Clients \ {c} : thread'[d] = thread[d]
    BY <1>1 DEF TypeInv, TypeOK, Staged, Hello, To, clientVars
  <2>3. Staged'
    BY <2>2, <2>5 DEF TypeInv, Staged
  <2>4. LinesKnown' /\ AtSession'
    BY <1>1 DEF TypeInv, LinesKnown, AtSession, Hello, mainVars, clientVars
  <2> QED
    BY <2>1, <2>3, <2>4 DEF TypeInv
<1>2. CASE Replay(c)
  <2>1. /\ \/ socket' = socket
           \/ Room(c) /\ socket' = Write(c, "snapshot", snapshot)
        /\ thread[c] = "replaying" /\ (To(c, "registering") \/ To(c, "ended"))
        /\ UNCHANGED <<snapshot, sessions, alive, waiters, mainVars, upstream, connected,
                       replica, asked, replied, raced>>
    BY <1>2 DEF Replay
  <2>2. /\ socket' \in [Clients -> Seq(Line)]
        /\ \A d \in Clients : Len(socket'[d]) <= Capacity
        /\ \A d \in Clients \ {c} : socket'[d] = socket[d]
        /\ LinesKnown'
    <3>1. CASE socket' = socket
      BY <3>1 DEF TypeInv, TypeOK, LinesKnown
    <3>2. snapshot \in 0..MaxSnapshot /\ snapshot \in Nat
      BY DEF TypeInv, TypeOK
    <3> QED
      BY <2>1, <3>1, <3>2, WriteType
  <2>3. TypeOK'
    BY <2>1, <2>2 DEF TypeInv, TypeOK, To, mainVars
  <2>4. \A i \in 1..Len(sessions) : sessions[i] \in Clients \ {c}
    BY <2>1, ListedPastRegistration
  <2>5. /\ UNCHANGED <<sessions, alive>> /\ thread[c] = "replaying"
        /\ thread'[c] \in {"registering", "ended"}
        /\ \A d \in Clients \ {c} : thread'[d] = thread[d]
    BY <2>1 DEF TypeInv, TypeOK, To
  <2>8. \A d \in Clients \ {c} : socket'[d] = socket[d]
    BY <2>2
  <2>6. Staged'
    BY <2>4, <2>5, <2>8 DEF TypeInv, Staged
  <2>7. AtSession'
    BY <2>1 DEF TypeInv, AtSession, mainVars
  <2> QED
    BY <2>2, <2>3, <2>6, <2>7 DEF TypeInv
<1>3. CASE Register(c)
  <2>1. /\ sessions' \in Seq(Clients) /\ Len(sessions') = Len(sessions) + 1
        /\ \A i \in 1..Len(sessions) : i \in 1..Len(sessions') /\ sessions'[i] = sessions[i]
        /\ sessions'[Len(sessions) + 1] = c /\ Len(sessions) + 1 \in 1..Len(sessions')
    BY <1>3 DEF TypeInv, TypeOK, Register
  <2>2. TypeOK'
    BY <1>3, <2>1 DEF TypeInv, TypeOK, Register, To, mainVars, clientVars
  <2>3. Staged'
    <3>1. /\ thread[c] = "registering" /\ socket' = socket
          /\ thread'[c] = "serving" /\ alive'[c]
          /\ \A d \in Clients \ {c} : thread'[d] = thread[d] /\ alive'[d] = alive[d]
      BY <1>3 DEF TypeInv, TypeOK, Register, To, clientVars
    <3>2. \A d \in Clients :
            /\ alive'[d] <=> thread'[d] = "serving"
            /\ thread'[d] = "serving" => \E i \in 1..Len(sessions') : sessions'[i] = d
            /\ thread'[d] \in {"hello", "replaying"} => socket'[d] = <<>>
      BY <2>1, <3>1 DEF TypeInv, Staged
    <3>3. \A i \in 1..Len(sessions') :
            \/ sessions'[i] = c
            \/ i \in 1..Len(sessions) /\ sessions'[i] = sessions[i]
      BY <2>1, SMTT(30) DEF TypeInv, TypeOK
    <3>4. \A i \in 1..Len(sessions') : thread'[sessions'[i]] \in {"serving", "ended"}
      BY <3>1, <3>3, ListedPastRegistration
    <3> QED
      BY <3>2, <3>4 DEF Staged
  <2>4. LinesKnown' /\ AtSession'
    BY <1>3, <2>1 DEF TypeInv, LinesKnown, AtSession, Register, mainVars, clientVars
  <2> QED
    BY <2>2, <2>3, <2>4 DEF TypeInv
<1>4. CASE ServeAnswer(c)
  <2>1. Head(upstream[c]) \in 1..MaxQuery /\ Tail(upstream[c]) \in Seq(1..MaxQuery)
    BY <1>4 DEF TypeInv, TypeOK, ServeAnswer
  <2>2. TypeOK'
    BY <1>4, <2>1 DEF TypeInv, TypeOK, ServeAnswer
  <2>3. Staged' /\ LinesKnown' /\ AtSession'
    BY <1>4 DEF TypeInv, Staged, LinesKnown, AtSession, ServeAnswer
  <2> QED
    BY <2>2, <2>3 DEF TypeInv
<1>5. CASE ServeEof(c)
  <2>1. TypeOK'
    BY <1>5 DEF TypeInv, TypeOK, ServeEof, To, mainVars, clientVars
  <2>2. Staged' /\ LinesKnown' /\ AtSession'
    BY <1>5 DEF TypeInv, TypeOK, Staged, LinesKnown, AtSession, ServeEof, To, mainVars, clientVars
  <2> QED
    BY <2>1, <2>2 DEF TypeInv
<1> QED
  BY <1>1, <1>2, <1>3, <1>4, <1>5 DEF Thread

(* The clients.                                                            *)
LEMMA ClientType ==
  ASSUME TypeInv, NEW c \in Clients, ClientReads(c) \/ ClientLeaves(c)
  PROVE  TypeInv'
<1>1. CASE ClientReads(c)
  <2>1. /\ Head(socket[c]) = socket[c][1] /\ 1 \in DOMAIN socket[c]
        /\ Head(socket[c]) \in Line /\ Tail(socket[c]) \in Seq(Line)
        /\ Len(Tail(socket[c])) = Len(socket[c]) - 1
        /\ \A i \in DOMAIN Tail(socket[c]) :
             i + 1 \in DOMAIN socket[c] /\ Tail(socket[c])[i] = socket[c][i + 1]
    BY <1>1 DEF TypeInv, TypeOK, ClientReads
  <2>2. \A d \in Clients : socket'[d] = IF d = c THEN Tail(socket[c]) ELSE socket[d]
    BY <1>1 DEF TypeInv, TypeOK, ClientReads
  <2>3. LinesKnown'
    <3> SUFFICES ASSUME NEW d \in Clients, NEW i \in DOMAIN socket'[d]
                 PROVE  /\ socket'[d][i].kind = "query" => socket'[d][i].n \in 1..MaxQuery
                        /\ socket'[d][i].kind = "snapshot" => socket'[d][i].n \in 0..MaxSnapshot
      BY DEF LinesKnown
    <3>1. \E j \in DOMAIN socket[d] : socket'[d][i] = socket[d][j]
      BY <2>1, <2>2
    <3> QED
      BY <3>1 DEF TypeInv, LinesKnown
  <2>4. replica' \in [Plugins -> 0..MaxSnapshot] /\ asked' \in [Plugins -> SUBSET (1..MaxQuery)]
    <3> DEFINE line == Head(socket[c])
    <3>1. /\ replica' = IF line.kind = "snapshot" THEN [replica EXCEPT ![c] = line.n] ELSE replica
          /\ asked' = IF line.kind = "query" THEN [asked EXCEPT ![c] = @ \cup {line.n}] ELSE asked
      BY <1>1 DEF ClientReads
    <3>2. /\ line.kind = "query" => line.n \in 1..MaxQuery
          /\ line.kind = "snapshot" => line.n \in 0..MaxSnapshot
      BY <2>1 DEF TypeInv, LinesKnown
    <3> HIDE DEF line
    <3> QED
      BY <3>1, <3>2 DEF TypeInv, TypeOK
  <2>5. /\ socket' \in [Clients -> Seq(Line)]
        /\ \A d \in Clients : Len(socket'[d]) <= Capacity
    BY <1>1, <2>1, <2>2 DEF TypeInv, TypeOK, ClientReads
  <2>6. TypeOK'
    BY <1>1, <2>4, <2>5 DEF TypeInv, TypeOK, ClientReads, hubVars, mainVars
  <2>7. Staged' /\ AtSession'
    BY <1>1, <2>2 DEF TypeInv, Staged, AtSession, ClientReads, hubVars, mainVars
  <2> QED
    BY <2>3, <2>6, <2>7 DEF TypeInv
<1>2. CASE ClientLeaves(c)
  <2>1. TypeOK'
    BY <1>2 DEF TypeInv, TypeOK, ClientLeaves, hubVars, mainVars
  <2>2. Staged' /\ LinesKnown' /\ AtSession'
    BY <1>2 DEF TypeInv, TypeOK, Staged, LinesKnown, AtSession, ClientLeaves, hubVars, mainVars
  <2> QED
    BY <2>1, <2>2 DEF TypeInv
<1> QED
  BY <1>1, <1>2

LEMMA RepliesType ==
  ASSUME TypeInv, NEW p \in Plugins, NEW q \in asked[p], PluginReplies(p, q)
  PROVE  TypeInv'
<1>1. q \in 1..MaxQuery /\ Append(upstream[p], q) \in Seq(1..MaxQuery)
  BY DEF TypeInv, TypeOK, Clients
<1>2. TypeOK'
  BY <1>1 DEF TypeInv, TypeOK, PluginReplies, hubVars, mainVars
<1>3. Staged' /\ LinesKnown' /\ AtSession'
  BY DEF TypeInv, Staged, LinesKnown, AtSession, PluginReplies, hubVars, mainVars
<1> QED
  BY <1>2, <1>3 DEF TypeInv

(* The main loop.                                                          *)
LEMMA BeginsType ==
  ASSUME TypeInv, MainBegins
  PROVE  TypeInv'
<1>1. CASE SetSnapshot
  <2>1. TypeOK'
    BY <1>1 DEF TypeInv, TypeOK, SetSnapshot, clientVars
  <2>2. Staged' /\ LinesKnown' /\ AtSession'
    BY <1>1 DEF TypeInv, Staged, LinesKnown, AtSession, SetSnapshot, clientVars
  <2> QED
    BY <2>1, <2>2 DEF TypeInv
<1>2. CASE RequestSaves
  <2>1. TypeOK'
    BY <1>2 DEF TypeInv, TypeOK, RequestSaves, hubVars, clientVars
  <2>2. Staged' /\ LinesKnown' /\ AtSession'
    BY <1>2 DEF TypeInv, Staged, LinesKnown, AtSession, RequestSaves, hubVars, clientVars
  <2> QED
    BY <2>1, <2>2 DEF TypeInv
<1>3. CASE AskNobody
  <2>1. TypeOK'
    BY <1>3 DEF TypeInv, TypeOK, AskNobody, hubVars, clientVars
  <2>2. Staged' /\ LinesKnown' /\ AtSession'
    BY <1>3 DEF TypeInv, Staged, LinesKnown, AtSession, AskNobody, hubVars, clientVars
  <2> QED
    BY <2>1, <2>2 DEF TypeInv
<1>4. CASE Ask
  <2>1. PICK i \in 1..Len(sessions) :
          at' = i /\ waiters' = [waiters EXCEPT ![sessions[i]] = @ \cup {query + 1}]
    BY <1>4 DEF Ask
  <2>2. /\ query' = query + 1 /\ main' = "asking" /\ query < MaxQuery
        /\ UNCHANGED <<snapshot, sessions, thread, alive, saves, results, channel, clientVars, raced>>
    BY <1>4 DEF Ask
  <2>3. sessions[i] \in Clients /\ i \in 1..Len(sessions) /\ i \in Nat /\ query + 1 \in 1..MaxQuery
    BY <2>2 DEF TypeInv, TypeOK
  <2>4. TypeOK'
    BY <2>1, <2>2, <2>3 DEF TypeInv, TypeOK, clientVars
  <2>5. Staged' /\ LinesKnown' /\ AtSession'
    BY <2>1, <2>2, <2>3 DEF TypeInv, TypeOK, Staged, LinesKnown, AtSession, clientVars
  <2> QED
    BY <2>4, <2>5 DEF TypeInv
<1> QED
  BY <1>1, <1>2, <1>3, <1>4 DEF MainBegins

LEMMA GoesOnType ==
  ASSUME TypeInv, MainGoesOn
  PROVE  TypeInv'
<1>1. CASE LockSessions
  <2>1. TypeOK'
    BY <1>1 DEF TypeInv, TypeOK, LockSessions, hubVars, clientVars
  <2>2. Staged' /\ LinesKnown' /\ AtSession'
    BY <1>1 DEF TypeInv, Staged, LinesKnown, AtSession, LockSessions, hubVars, clientVars
  <2> QED
    BY <2>1, <2>2 DEF TypeInv
<1>2. CASE WriteNext
  <2> DEFINE c == sessions[at]
  <2>1. /\ c \in Clients /\ at \in 1..Len(sessions)
        /\ main \in {"pushing", "saving"} /\ at' = at + 1 /\ at \in Nat
        /\ UNCHANGED <<hubVars, main, query, saves, results, channel, upstream, connected,
                       replica, asked, replied, raced>>
    BY <1>2 DEF TypeInv, TypeOK, AtSession, WriteNext
  <2>2. \/ socket' = socket
        \/ /\ Addressed(c) /\ Room(c)
           /\ \/ socket' = Write(c, "snapshot", snapshot)
              \/ socket' = Write(c, "saveFiles", saves)
    BY <1>2 DEF WriteNext
  <2> HIDE DEF c
  <2>3. /\ socket' \in [Clients -> Seq(Line)]
        /\ \A d \in Clients : Len(socket'[d]) <= Capacity
        /\ \A d \in Clients : alive[d] \/ socket'[d] = socket[d]
        /\ LinesKnown'
    <3>1. CASE socket' = socket
      BY <3>1 DEF TypeInv, TypeOK, LinesKnown
    <3>2. snapshot \in 0..MaxSnapshot /\ snapshot \in Nat /\ saves \in Nat
      BY DEF TypeInv, TypeOK
    <3> QED
      BY <2>1, <2>2, <3>1, <3>2, WriteType DEF Addressed
  <2>4. TypeOK'
    BY <2>1, <2>3 DEF TypeInv, TypeOK, hubVars
  <2>5. Staged'
    BY <2>1, <2>3 DEF TypeInv, Staged, hubVars
  <2>6. AtSession'
    BY <2>1 DEF AtSession, hubVars
  <2> QED
    BY <2>3, <2>4, <2>5, <2>6 DEF TypeInv
<1>3. CASE RoundEnds
  <2>1. TypeOK'
    BY <1>3 DEF TypeInv, TypeOK, RoundEnds, hubVars, clientVars
  <2>2. Staged' /\ LinesKnown' /\ AtSession'
    BY <1>3 DEF TypeInv, Staged, LinesKnown, AtSession, RoundEnds, hubVars, clientVars
  <2> QED
    BY <2>1, <2>2 DEF TypeInv
<1>4. CASE AskWrite
  <2> DEFINE c == sessions[at]
  <2>1. /\ main = "asking" /\ c \in Clients /\ query \in 1..MaxQuery
        /\ UNCHANGED <<hubVars, at, query, saves, channel, upstream, connected, replica,
                       asked, replied, raced>>
    BY <1>4 DEF TypeInv, TypeOK, AtSession, AskWrite
  <2>2. \/ /\ Room(c) /\ socket' = Write(c, "query", query)
           /\ main' = "waiting" /\ UNCHANGED results
        \/ /\ main' = "idle" /\ results' = [results EXCEPT ![query] = "error"]
           /\ UNCHANGED socket
    BY <1>4 DEF AskWrite
  <2>a. thread[c] \in {"serving", "ended"}
    BY <1>4 DEF TypeInv, AtSession, Staged, AskWrite
  <2> HIDE DEF c
  <2>3. /\ socket' \in [Clients -> Seq(Line)]
        /\ \A d \in Clients : Len(socket'[d]) <= Capacity
        /\ \A d \in Clients \ {c} : socket'[d] = socket[d]
        /\ LinesKnown'
    <3>1. CASE socket' = socket
      BY <3>1 DEF TypeInv, TypeOK, LinesKnown
    <3>2. query \in Nat
      BY DEF TypeInv, TypeOK
    <3> QED
      BY <2>1, <2>2, <3>1, <3>2, WriteType
  <2>4. TypeOK'
    BY <2>1, <2>2, <2>3 DEF TypeInv, TypeOK, hubVars
  <2>5. Staged' /\ AtSession'
    BY <2>1, <2>2, <2>3, <2>a DEF TypeInv, Staged, AtSession, hubVars
  <2> QED
    BY <2>3, <2>4, <2>5 DEF TypeInv
<1>5. CASE Answered \/ TimesOut
  <2>1. TypeOK'
    BY <1>5 DEF TypeInv, TypeOK, Answered, TimesOut, hubVars, clientVars
  <2>2. Staged' /\ LinesKnown' /\ AtSession'
    BY <1>5 DEF TypeInv, Staged, LinesKnown, AtSession, Answered, TimesOut, hubVars, clientVars
  <2> QED
    BY <2>1, <2>2 DEF TypeInv
<1> QED
  BY <1>1, <1>2, <1>3, <1>4, <1>5 DEF MainGoesOn

LEMMA StepType ==
  ASSUME TypeInv, [Next]_vars
  PROVE  TypeInv'
<1>1. CASE UNCHANGED vars
  <2>1. TypeOK'
    BY <1>1 DEF TypeInv, TypeOK, vars, hubVars, mainVars, clientVars
  <2>2. Staged' /\ LinesKnown' /\ AtSession'
    BY <1>1 DEF TypeInv, Staged, LinesKnown, AtSession, vars, hubVars, mainVars, clientVars
  <2> QED
    BY <2>1, <2>2 DEF TypeInv
<1> QED
  BY <1>1, BeginsType, GoesOnType, ThreadType, ClientType, RepliesType DEF Next

LEMMA TypeInvAlways == Spec => []TypeInv
<1>1. TypeInv /\ [Next]_vars => TypeInv'
  BY StepType
<1> QED
  BY <1>1, InitType, PTL DEF Spec

(* The types of every variable; no socket holds more than its capacity.    *)
THEOREM TypeCorrect == Spec => []TypeOK
<1>1. TypeInv => TypeOK
  BY DEF TypeInv
<1> QED
  BY <1>1, TypeInvAlways, PTL

-----------------------------------------------------------------------------
(* Every answer comes from a plugin that was asked for it.                 *)
Genuine ==
  /\ \A q \in 1..MaxQuery : results[q] = "answer" => q \in replied
  /\ channel \subseteq replied
  /\ \A c \in Clients : \A i \in 1..Len(upstream[c]) : upstream[c][i] \in replied

(* A connection whose thread has ended is gone, and all it sent was read.   *)
Drained ==
  \A i \in 1..Len(sessions) :
    thread[sessions[i]] = "ended" => ~connected[sessions[i]] /\ upstream[sessions[i]] = <<>>

(* The main loop asks a session that has its waiter until it has answered. *)
Routable ==
  main \in {"asking", "waiting"} /\ query \notin channel => query \in waiters[sessions[at]]

(* What it waits for is with the plugin or on its way back.                *)
Underway ==
  /\ main \in {"asking", "waiting"} => sessions[at] \in Plugins
  /\ main = "waiting" /\ query \notin channel /\ connected[sessions[at]] =>
       Holds(sessions[at], query) \/ Sent(sessions[at], query)

LEMMA GenuineStep ==
  ASSUME TypeInv, Genuine, [Next]_vars
  PROVE  Genuine'
<1>1. CASE UNCHANGED <<results, channel, upstream, replied>>
  BY <1>1 DEF Genuine
<1>2. ASSUME NEW c \in Clients, ServeAnswer(c) PROVE Genuine'
  <2>1. /\ upstream[c] \in Seq(1..MaxQuery) /\ upstream[c] # <<>>
        /\ channel' = IF Head(upstream[c]) \in waiters[c] THEN channel \cup {Head(upstream[c])}
                                                         ELSE channel
        /\ UNCHANGED <<results, replied>>
    BY <1>2 DEF TypeInv, TypeOK, ServeAnswer
  <2>2. \A d \in Clients : upstream'[d] = IF d = c THEN Tail(upstream[c]) ELSE upstream[d]
    BY <1>2 DEF TypeInv, TypeOK, ServeAnswer
  <2>3. Head(upstream[c]) \in replied
    BY <2>1 DEF Genuine
  <2>4. /\ Len(Tail(upstream[c])) = Len(upstream[c]) - 1 /\ Len(upstream[c]) \in Nat
        /\ \A i \in 1..Len(Tail(upstream[c])) : Tail(upstream[c])[i] = upstream[c][i + 1]
    BY <2>1
  <2>5. \A d \in Clients : \A i \in 1..Len(upstream'[d]) : upstream'[d][i] \in replied
    <3> TAKE d \in Clients
    <3> TAKE i \in 1..Len(upstream'[d])
    <3>1. CASE d = c
      <4>1. upstream'[d] = Tail(upstream[c])
        BY <2>2, <3>1
      <4>2. i \in 1..Len(upstream[c]) - 1 /\ i + 1 \in 1..Len(upstream[c])
        BY <2>4, <4>1
      <4> QED
        BY <2>4, <4>1, <4>2 DEF Genuine
    <3>2. CASE d # c
      BY <2>2, <3>2 DEF Genuine
    <3> QED
      BY <3>1, <3>2
  <2> QED
    BY <2>1, <2>3, <2>5 DEF Genuine
<1>3. ASSUME NEW p \in Plugins, NEW q \in asked[p], PluginReplies(p, q) PROVE Genuine'
  <2>1. /\ replied' = replied \cup {q} /\ UNCHANGED <<results, channel>>
        /\ q \in 1..MaxQuery /\ upstream[p] \in Seq(1..MaxQuery)
    BY <1>3 DEF TypeInv, TypeOK, PluginReplies, mainVars, Clients
  <2>2. \A d \in Clients :
          upstream'[d] = IF d = p THEN Append(upstream[p], q) ELSE upstream[d]
    BY <1>3 DEF TypeInv, TypeOK, PluginReplies, Clients
  <2>3. /\ Len(Append(upstream[p], q)) = Len(upstream[p]) + 1 /\ Len(upstream[p]) \in Nat
        /\ \A i \in 1..Len(upstream[p]) + 1 :
             Append(upstream[p], q)[i] = IF i <= Len(upstream[p]) THEN upstream[p][i] ELSE q
    BY <2>1
  <2>4. \A d \in Clients : \A i \in 1..Len(upstream'[d]) : upstream'[d][i] \in replied'
    <3> TAKE d \in Clients
    <3> TAKE i \in 1..Len(upstream'[d])
    <3>1. CASE d = p
      <4>1. upstream'[d] = Append(upstream[p], q) /\ i \in 1..Len(upstream[p]) + 1
        BY <2>2, <2>3, <3>1
      <4> QED
        BY <2>1, <2>3, <4>1 DEF Genuine, Clients
    <3>2. CASE d # p
      BY <2>1, <2>2, <3>2 DEF Genuine
    <3> QED
      BY <3>1, <3>2
  <2> QED
    BY <2>1, <2>4 DEF Genuine
<1>4. ASSUME UNCHANGED <<channel, upstream, replied>>,
             \A q \in 1..MaxQuery : results'[q] = "answer" => results[q] = "answer" \/ q \in channel
      PROVE  Genuine'
  BY <1>4 DEF Genuine
<1>5. CASE AskNobody \/ AskWrite \/ Answered \/ TimesOut
  BY <1>4, <1>5 DEF TypeInv, TypeOK, AskNobody, AskWrite, Answered, TimesOut, clientVars
<1>6. CASE SetSnapshot \/ RequestSaves \/ Ask \/ LockSessions \/ WriteNext \/ RoundEnds
  BY <1>1, <1>6 DEF SetSnapshot, RequestSaves, Ask, LockSessions, WriteNext, RoundEnds, clientVars
<1>7. ASSUME NEW c \in Clients,
             Hello(c) \/ Replay(c) \/ Register(c) \/ ServeEof(c) \/ ClientReads(c) \/ ClientLeaves(c)
      PROVE  Genuine'
  BY <1>1, <1>7 DEF Hello, Replay, Register, ServeEof, ClientReads, ClientLeaves, mainVars, clientVars
<1>8. CASE UNCHANGED vars
  BY <1>1, <1>8 DEF vars, mainVars, clientVars
<1> QED
  BY <1>2, <1>3, <1>5, <1>6, <1>7, <1>8 DEF Next, MainBegins, MainGoesOn, Thread

LEMMA RoutableStep ==
  ASSUME TypeInv, Routable, [Next]_vars
  PROVE  Routable'
<1>1. ASSUME UNCHANGED <<waiters, sessions, at, query, channel>>,
             main' \in {"asking", "waiting"} => main \in {"asking", "waiting"}
      PROVE  Routable'
  BY <1>1 DEF Routable
<1>2. CASE main' \notin {"asking", "waiting"}
  BY <1>2 DEF Routable
<1>3. CASE Ask
  <2>1. PICK i \in 1..Len(sessions) :
          at' = i /\ waiters' = [waiters EXCEPT ![sessions[i]] = @ \cup {query + 1}]
    BY <1>3 DEF Ask
  <2>2. sessions[i] \in Clients /\ UNCHANGED sessions /\ query' = query + 1
    BY <1>3 DEF TypeInv, TypeOK, Ask
  <2>3. query + 1 \in waiters'[sessions'[at']]
    BY <2>1, <2>2 DEF TypeInv, TypeOK
  <2> QED
    BY <2>2, <2>3 DEF Routable
<1>4. ASSUME NEW c \in Clients, Register(c) PROVE Routable'
  <2>1. UNCHANGED <<waiters, main, at, query, channel>> /\ ~SessionsLocked
        /\ sessions' = Append(sessions, c) /\ sessions \in Seq(Clients)
    BY <1>4 DEF Register, mainVars, TypeInv, TypeOK
  <2>2. main = "waiting" => sessions'[at] = sessions[at]
    BY <2>1 DEF TypeInv, AtSession
  <2> QED
    BY <2>1, <2>2 DEF Routable, SessionsLocked
<1>5. ASSUME NEW c \in Clients, ServeAnswer(c) PROVE Routable'
  <2> DEFINE q == Head(upstream[c])
  <2>1. /\ waiters' = [waiters EXCEPT ![c] = @ \ {q}]
        /\ channel' = IF q \in waiters[c] THEN channel \cup {q} ELSE channel
        /\ UNCHANGED <<main, at, query, sessions>>
    BY <1>5 DEF ServeAnswer
  <2> HIDE DEF q
  <2>2. main \in {"asking", "waiting"} => sessions[at] \in Clients
    BY DEF TypeInv, TypeOK, AtSession
  <2>3. waiters \in [Clients -> SUBSET (1..MaxQuery)]
    BY DEF TypeInv, TypeOK
  <2> SUFFICES ASSUME main \in {"asking", "waiting"}, query \in waiters[sessions[at]],
                      query \notin channel'
               PROVE  query \in waiters'[sessions[at]]
    BY <2>1 DEF Routable
  <2>4. sessions[at] # c \/ q # query
    BY <2>1
  <2> QED
    BY <2>1, <2>2, <2>3, <2>4
<1>6. CASE SetSnapshot \/ RequestSaves \/ AskNobody
  BY <1>2, <1>6 DEF SetSnapshot, RequestSaves, AskNobody
<1>7. CASE LockSessions \/ WriteNext \/ RoundEnds \/ AskWrite \/ Answered \/ TimesOut
  BY <1>1, <1>2, <1>7 DEF LockSessions, WriteNext, RoundEnds, AskWrite, Answered, TimesOut, hubVars
<1>8. ASSUME NEW c \in Clients,
             \/ Hello(c) \/ Replay(c) \/ ServeEof(c) \/ ClientReads(c) \/ ClientLeaves(c)
             \/ c \in Plugins /\ \E q \in asked[c] : PluginReplies(c, q)
      PROVE  Routable'
  BY <1>1, <1>8 DEF Hello, Replay, ServeEof, ClientReads, ClientLeaves, PluginReplies, mainVars, hubVars
<1>9. CASE UNCHANGED vars
  BY <1>1, <1>9 DEF vars, mainVars, hubVars
<1> QED
  BY <1>3, <1>4, <1>5, <1>6, <1>7, <1>8, <1>9 DEF Next, MainBegins, MainGoesOn, Thread, Clients

LEMMA DrainedStep ==
  ASSUME TypeInv, Drained, [Next]_vars
  PROVE  Drained'
<1>1. ASSUME UNCHANGED <<sessions, connected, upstream>>,
             \A i \in 1..Len(sessions) :
               thread'[sessions[i]] = "ended" => thread[sessions[i]] = "ended"
      PROVE  Drained'
  BY <1>1 DEF Drained
<1>2. ASSUME NEW c \in Clients, Hello(c) \/ Replay(c) PROVE Drained'
  <2>1. thread[c] \in {"hello", "replaying"} /\ UNCHANGED <<sessions, connected, upstream>>
        /\ \E stage : thread' = [thread EXCEPT ![c] = stage]
    BY <1>2 DEF Hello, Replay, To, clientVars
  <2>2. \A i \in 1..Len(sessions) : sessions[i] # c
    BY <2>1, ListedPastRegistration
  <2>3. \A i \in 1..Len(sessions) : thread'[sessions[i]] = thread[sessions[i]]
    BY <2>1, <2>2, ListedPastRegistration DEF TypeInv, TypeOK
  <2> QED
    BY <1>1, <2>1, <2>3
<1>3. ASSUME NEW c \in Clients, Register(c) PROVE Drained'
  <2>1. /\ sessions \in Seq(Clients) /\ sessions' = Append(sessions, c)
        /\ thread' = [thread EXCEPT ![c] = "serving"]
        /\ UNCHANGED <<connected, upstream>>
    BY <1>3 DEF Register, To, clientVars, TypeInv, TypeOK
  <2>2. /\ Len(sessions') = Len(sessions) + 1 /\ sessions'[Len(sessions) + 1] = c
        /\ \A i \in 1..Len(sessions) : sessions'[i] = sessions[i]
        /\ Len(sessions) \in Nat
    BY <2>1
  <2>3. \A d \in Clients : thread'[d] = "ended" => thread[d] = "ended" /\ d # c
    BY <2>1 DEF TypeInv, TypeOK
  <2>4. \A i \in 1..Len(sessions) + 1 : thread'[sessions'[i]] = "ended" =>
          i \in 1..Len(sessions) /\ thread[sessions[i]] = "ended" /\ sessions'[i] = sessions[i]
    <3> SUFFICES ASSUME NEW i \in 1..Len(sessions) + 1, thread'[sessions'[i]] = "ended"
                 PROVE  i \in 1..Len(sessions) /\ thread[sessions[i]] = "ended"
                        /\ sessions'[i] = sessions[i]
      OBVIOUS
    <3>1. i # Len(sessions) + 1
      BY <2>2, <2>3
    <3>2. i \in 1..Len(sessions)
      BY <2>2, <3>1
    <3> QED
      BY <2>2, <2>3, <3>2, ListedPastRegistration
  <2> QED
    BY <2>1, <2>2, <2>4 DEF Drained
<1>4. ASSUME NEW c \in Clients, ServeAnswer(c) PROVE Drained'
  <2>1. /\ thread[c] = "serving" /\ UNCHANGED <<sessions, thread, connected>>
        /\ upstream' = [upstream EXCEPT ![c] = Tail(@)]
    BY <1>4 DEF ServeAnswer
  <2>2. \A d \in Clients : d # c => upstream'[d] = upstream[d]
    BY <2>1 DEF TypeInv, TypeOK
  <2> QED
    BY <2>1, <2>2, ListedPastRegistration DEF Drained
<1>5. ASSUME NEW c \in Clients, ServeEof(c) PROVE Drained'
  <2>1. /\ upstream[c] = <<>> /\ ~connected[c] /\ UNCHANGED <<sessions, connected, upstream>>
        /\ thread' = [thread EXCEPT ![c] = "ended"]
    BY <1>5 DEF ServeEof, To, clientVars
  <2>2. \A d \in Clients : d # c => thread'[d] = thread[d]
    BY <2>1 DEF TypeInv, TypeOK
  <2> QED
    BY <2>1, <2>2, ListedPastRegistration DEF Drained
<1>6. ASSUME NEW p \in Plugins, NEW q \in asked[p], PluginReplies(p, q) PROVE Drained'
  <2>1. connected[p] /\ UNCHANGED <<sessions, thread, connected>>
        /\ upstream' = [upstream EXCEPT ![p] = Append(@, q)]
    BY <1>6 DEF PluginReplies, hubVars
  <2>2. \A d \in Clients : d # p => upstream'[d] = upstream[d]
    BY <2>1 DEF TypeInv, TypeOK
  <2> QED
    BY <2>1, <2>2, ListedPastRegistration DEF Drained
<1>7. ASSUME NEW c \in Clients, ClientLeaves(c) PROVE Drained'
  <2>1. UNCHANGED <<sessions, thread, upstream>>
        /\ connected' = [connected EXCEPT ![c] = FALSE]
    BY <1>7 DEF ClientLeaves, hubVars
  <2>2. \A d \in Clients : ~connected[d] => ~connected'[d]
    BY <2>1 DEF TypeInv, TypeOK
  <2> QED
    BY <2>1, <2>2, ListedPastRegistration DEF Drained
<1>8. ASSUME NEW c \in Clients, ClientReads(c) PROVE Drained'
  BY <1>1, <1>8 DEF ClientReads, hubVars
<1>9. CASE MainBegins \/ MainGoesOn
  <2>1. UNCHANGED <<sessions, thread, connected, upstream>>
    BY <1>9 DEF MainBegins, MainGoesOn, SetSnapshot, RequestSaves, AskNobody, Ask,
       LockSessions, WriteNext, RoundEnds, AskWrite, Answered, TimesOut, hubVars, clientVars
  <2> QED
    BY <1>1, <2>1
<1>10. CASE UNCHANGED vars
  BY <1>1, <1>10 DEF vars, clientVars, hubVars
<1> QED
  BY <1>2, <1>3, <1>4, <1>5, <1>6, <1>7, <1>8, <1>9, <1>10 DEF Next, Thread

(* The head of a queue is taken, or an element is added at its end.        *)
LEMMA TakenOrLeft ==
  ASSUME NEW S, NEW s \in Seq(S), s # <<>>, NEW x,
         NEW i \in 1..Len(s), s[i] = x, Head(s) # x
  PROVE  \E j \in 1..Len(Tail(s)) : Tail(s)[j] = x
<1>1. i # 1 /\ i - 1 \in 1..Len(s) - 1 /\ Len(s) \in Nat
  OBVIOUS
<1>2. Len(Tail(s)) = Len(s) - 1 /\ Tail(s)[i - 1] = s[i]
  BY <1>1
<1> QED
  BY <1>1, <1>2

LEMMA EndsWith ==
  ASSUME NEW S, NEW s \in Seq(S), NEW x \in S
  PROVE  /\ \E j \in 1..Len(Append(s, x)) : Append(s, x)[j] = x
         /\ \A i \in 1..Len(s) : i \in 1..Len(Append(s, x)) /\ Append(s, x)[i] = s[i]
<1>1. Len(Append(s, x)) = Len(s) + 1 /\ Append(s, x)[Len(s) + 1] = x /\ Len(s) \in Nat
  OBVIOUS
<1> QED
  BY <1>1

LEMMA UnderwayStep ==
  ASSUME TypeInv, Routable, Underway, [Next]_vars
  PROVE  Underway'
<1>1. ASSUME UNCHANGED <<sessions, at, query, channel, connected, asked, socket, upstream>>,
             main' \in {"asking", "waiting"} => main \in {"asking", "waiting"},
             main' = "waiting" => main = "waiting"
      PROVE  Underway'
  BY <1>1 DEF Underway, Holds, Sent
<1>2. CASE main' \notin {"asking", "waiting"}
  BY <1>2 DEF Underway
<1> DEFINE c == sessions[at]
<1>3. main \in {"asking", "waiting"} => c \in Clients /\ query \in 1..MaxQuery
  BY DEF TypeInv, TypeOK, AtSession
<1>4. CASE Ask
  <2>1. PICK i \in 1..Len(sessions) : Youngest(i) /\ at' = i
    BY <1>4 DEF Ask
  <2> QED
    BY <1>4, <2>1 DEF Ask, Youngest, Underway
<1>5. CASE AskWrite
  <2>1. CASE main' = "waiting"
    <3>1. /\ UNCHANGED <<sessions, at, query>> /\ main = "asking"
          /\ socket' = Write(c, "query", query)
      BY <1>5, <2>1 DEF AskWrite, hubVars
    <3>2. /\ socket[c] \in Seq(Line) /\ [kind |-> "query", n |-> query] \in Line
          /\ socket'[c] = Append(socket[c], [kind |-> "query", n |-> query])
      BY <1>3, <3>1 DEF TypeInv, TypeOK, Line, Write
    <3>3. \E i \in 1..Len(socket'[c]) : socket'[c][i] = [kind |-> "query", n |-> query]
      BY <3>2, EndsWith
    <3> QED
      BY <3>1, <3>3 DEF Underway, Holds
  <2>2. CASE main' # "waiting"
    BY <1>2, <1>5, <2>2 DEF AskWrite
  <2> QED
    BY <2>1, <2>2
<1>6. ASSUME NEW d \in Clients, Register(d) PROVE Underway'
  <2>1. /\ UNCHANGED <<main, at, query, channel, connected, asked, socket, upstream>>
        /\ ~SessionsLocked /\ sessions' = Append(sessions, d) /\ sessions \in Seq(Clients)
    BY <1>6 DEF Register, mainVars, clientVars, TypeInv, TypeOK
  <2>2. main = "waiting" => sessions'[at] = sessions[at]
    BY <2>1 DEF TypeInv, AtSession
  <2> QED
    BY <2>1, <2>2 DEF Underway, SessionsLocked, Holds, Sent
<1>7. ASSUME NEW d \in Clients, ServeAnswer(d) PROVE Underway'
  <2>1. /\ upstream[d] # <<>> /\ upstream' = [upstream EXCEPT ![d] = Tail(@)]
        /\ channel' = IF Head(upstream[d]) \in waiters[d]
                      THEN channel \cup {Head(upstream[d])} ELSE channel
        /\ UNCHANGED <<main, at, query, sessions, connected, asked, socket>>
    BY <1>7 DEF ServeAnswer
  <2> SUFFICES ASSUME main = "waiting", query \notin channel', connected[c]
               PROVE  Holds(c, query) \/ Sent(c, query)'
    BY <2>1 DEF Underway, Holds
  <2>2. c \in Clients /\ (Holds(c, query) \/ Sent(c, query)) /\ query \in waiters[c]
    BY <1>3, <2>1 DEF Underway, Routable
  <2>3. CASE d = c /\ Sent(c, query)
    <3>1. Head(upstream[c]) # query
      BY <2>1, <2>2, <2>3
    <3>2. upstream[c] \in Seq(1..MaxQuery) /\ upstream'[c] = Tail(upstream[c])
      BY <2>1, <2>2, <2>3 DEF TypeInv, TypeOK
    <3>3. PICK i \in 1..Len(upstream[c]) : upstream[c][i] = query
      BY <2>3 DEF Sent
    <3>4. PICK u : u = upstream[c]
      OBVIOUS
    <3>5. u \in Seq(1..MaxQuery) /\ u # <<>> /\ Head(u) # query
      BY <2>1, <2>3, <3>1, <3>2, <3>4
    <3>6. i \in 1..Len(u) /\ u[i] = query
      BY <3>3, <3>4
    <3>7. \E j \in 1..Len(Tail(u)) : Tail(u)[j] = query
      BY ONLY <3>5, <3>6, TakenOrLeft
    <3> QED
      BY <2>1, <3>2, <3>4, <3>7 DEF Sent
  <2>4. CASE d # c
    <3>1. upstream'[c] = upstream[c]
      BY <2>1, <2>2, <2>4 DEF TypeInv, TypeOK
    <3> QED
      BY <2>1, <2>2, <3>1 DEF Sent
  <2> QED
    BY <2>2, <2>3, <2>4
<1>8. ASSUME NEW d \in Clients, ClientReads(d) PROVE Underway'
  <2>1. /\ socket[d] # <<>> /\ socket' = [socket EXCEPT ![d] = Tail(@)]
        /\ asked' = IF Head(socket[d]).kind = "query"
                    THEN [asked EXCEPT ![d] = @ \cup {Head(socket[d]).n}] ELSE asked
        /\ UNCHANGED <<main, at, query, channel, sessions, connected, upstream>>
    BY <1>8 DEF ClientReads, hubVars, mainVars
  <2> SUFFICES ASSUME main = "waiting", query \notin channel, connected[c], Holds(c, query)
               PROVE  Holds(c, query)'
    BY <2>1 DEF Underway, Sent
  <2>2. c \in Plugins /\ c \in Clients
    BY DEF Underway, Clients
  <2>3. asked[c] \subseteq asked'[c]
    BY <2>1, <2>2 DEF TypeInv, TypeOK
  <2>4. CASE d = c /\ query \notin asked[c]
    <3>1. socket[c] \in Seq(Line) /\ socket'[c] = Tail(socket[c])
      BY <2>1, <2>2, <2>4 DEF TypeInv, TypeOK
    <3>2. PICK i \in 1..Len(socket[c]) : socket[c][i] = [kind |-> "query", n |-> query]
      BY <2>4 DEF Holds
    <3>3. CASE Head(socket[c]) = [kind |-> "query", n |-> query]
      <4>1. query \in asked'[c]
        BY <2>1, <2>2, <2>4, <3>3 DEF TypeInv, TypeOK
      <4> QED
        BY <2>1, <4>1 DEF Holds
    <3>4. CASE Head(socket[c]) # [kind |-> "query", n |-> query]
      <4> DEFINE line == [kind |-> "query", n |-> query]
      <4>2. PICK s : s = socket[c]
        OBVIOUS
      <4>3. s \in Seq(Line) /\ s # <<>> /\ Head(s) # line
        BY <2>1, <2>4, <3>1, <3>4, <4>2
      <4>4. i \in 1..Len(s) /\ s[i] = line
        BY <3>2, <4>2
      <4>5. ASSUME NEW l, l = line PROVE \E j \in 1..Len(Tail(s)) : Tail(s)[j] = l
        BY ONLY <4>3, <4>4, <4>5, TakenOrLeft
      <4>1. \E j \in 1..Len(Tail(socket[c])) : Tail(socket[c])[j] = line
        BY <4>2, <4>5
      <4> QED
        BY <2>1, <3>1, <4>1 DEF Holds
    <3> QED
      BY <3>3, <3>4
  <2>5. CASE d # c \/ query \in asked[c]
    <3>1. d # c => socket'[c] = socket[c]
      BY <2>1, <2>2 DEF TypeInv, TypeOK
    <3> QED
      BY <2>1, <2>3, <2>5, <3>1 DEF Holds
  <2> QED
    BY <2>4, <2>5
<1>9. ASSUME NEW p \in Plugins, NEW q \in asked[p], PluginReplies(p, q) PROVE Underway'
  <2>1. /\ asked' = [asked EXCEPT ![p] = @ \ {q}]
        /\ upstream' = [upstream EXCEPT ![p] = Append(@, q)]
        /\ UNCHANGED <<main, at, query, channel, sessions, connected, socket>>
    BY <1>9 DEF PluginReplies, hubVars, mainVars
  <2> SUFFICES ASSUME main = "waiting", query \notin channel, connected[c],
                      Holds(c, query) \/ Sent(c, query)
               PROVE  Holds(c, query)' \/ Sent(c, query)'
    BY <2>1 DEF Underway
  <2>2. c \in Plugins /\ c \in Clients /\ p \in Clients
    BY DEF Underway, Clients
  <2>3. CASE p = c
    <3>1. /\ upstream[c] \in Seq(1..MaxQuery) /\ q \in 1..MaxQuery
          /\ upstream'[c] = Append(upstream[c], q)
          /\ asked'[c] = asked[c] \ {q}
      BY <2>1, <2>2, <2>3 DEF TypeInv, TypeOK
    <3>2. /\ \E j \in 1..Len(upstream'[c]) : upstream'[c][j] = q
          /\ \A i \in 1..Len(upstream[c]) :
               i \in 1..Len(upstream'[c]) /\ upstream'[c][i] = upstream[c][i]
      <4>1. upstream[p] \in Seq(1..MaxQuery) /\ upstream'[p] = Append(upstream[p], q)
            /\ q \in 1..MaxQuery
        BY <2>3, <3>1
      <4>2. /\ Len(Append(upstream[p], q)) = Len(upstream[p]) + 1 /\ Len(upstream[p]) \in Nat
            /\ \A i \in 1..Len(upstream[p]) + 1 :
                 Append(upstream[p], q)[i] = IF i <= Len(upstream[p]) THEN upstream[p][i] ELSE q
        BY ONLY <4>1
      <4>3. Len(upstream[p]) + 1 \in 1..Len(upstream'[p])
            /\ upstream'[p][Len(upstream[p]) + 1] = q
        BY <4>1, <4>2
      <4>4. \A i \in 1..Len(upstream[p]) :
              i \in 1..Len(upstream'[p]) /\ upstream'[p][i] = upstream[p][i]
        BY <4>1, <4>2
      <4> QED
        BY <2>3, <4>3, <4>4
    <3>3. Sent(c, query) => Sent(c, query)'
      BY <2>1, <3>2 DEF Sent
    <3>4. q = query => Sent(c, query)'
      BY <2>1, <3>2 DEF Sent
    <3>5. q # query /\ Holds(c, query) => Holds(c, query)'
      BY <2>1, <3>1 DEF Holds
    <3> QED
      BY <3>3, <3>4, <3>5
  <2>4. CASE p # c
    <3>1. upstream'[c] = upstream[c] /\ asked'[c] = asked[c]
      BY <2>1, <2>2, <2>4 DEF TypeInv, TypeOK
    <3> QED
      BY <2>1, <3>1 DEF Holds, Sent
  <2> QED
    BY <2>3, <2>4
<1>10. ASSUME NEW d \in Clients, ClientLeaves(d) PROVE Underway'
  <2>1. /\ connected' = [connected EXCEPT ![d] = FALSE]
        /\ socket' = [socket EXCEPT ![d] = <<>>]
        /\ UNCHANGED <<main, at, query, channel, sessions, asked, upstream>>
    BY <1>10 DEF ClientLeaves, hubVars, mainVars
  <2> SUFFICES ASSUME main = "waiting", query \notin channel, connected'[c]
               PROVE  Holds(c, query)' \/ Sent(c, query)'
    BY <2>1 DEF Underway
  <2>2. c \in Clients /\ c # d
    BY <1>3, <2>1 DEF TypeInv, TypeOK
  <2>3. connected'[c] = connected[c] /\ socket'[c] = socket[c]
    BY <2>1, <2>2 DEF TypeInv, TypeOK
  <2> QED
    BY <2>1, <2>3 DEF Underway, Holds, Sent
<1>11. CASE SetSnapshot \/ RequestSaves \/ AskNobody
  BY <1>2, <1>11 DEF SetSnapshot, RequestSaves, AskNobody
<1>12. CASE LockSessions \/ WriteNext \/ RoundEnds \/ Answered \/ TimesOut
  BY <1>2, <1>12 DEF LockSessions, WriteNext, RoundEnds, Answered, TimesOut
<1>13. ASSUME NEW d \in Clients, Hello(d) \/ ServeEof(d) PROVE Underway'
  BY <1>1, <1>13 DEF Hello, ServeEof, mainVars, clientVars
<1>14. ASSUME NEW d \in Clients, Replay(d) PROVE Underway'
  <2>1. /\ thread[d] = "replaying"
        /\ socket' = socket \/ socket' = Write(d, "snapshot", snapshot)
        /\ UNCHANGED <<main, at, query, channel, sessions, connected, asked, upstream>>
    BY <1>14 DEF Replay, mainVars
  <2>2. main \in {"asking", "waiting"} => c # d /\ c \in Clients
    BY <2>1, ListedPastRegistration DEF TypeInv, AtSession
  <2>3. main \in {"asking", "waiting"} => socket'[c] = socket[c]
    BY <2>1, <2>2 DEF Write, TypeInv, TypeOK
  <2> QED
    BY <2>1, <2>3 DEF Underway, Holds, Sent
<1>15. CASE UNCHANGED vars
  BY <1>1, <1>15 DEF vars, mainVars, hubVars, clientVars
<1> QED
  BY <1>4, <1>5, <1>6, <1>7, <1>8, <1>9, <1>10, <1>11, <1>12, <1>13, <1>14, <1>15
     DEF Next, MainBegins, MainGoesOn, Thread

(* A query is ended only by an answer to it, and no answer is lost: while  *)
(* the main loop waits without one, the asked session has its waiter and a *)
(* thread to route what is to come, or the plugin left without answering   *)
(* (query_rename_locations, the reader thread).                            *)
THEOREM AnswersAreRouted == Spec => []AnswersRouted
<1> DEFINE RInv == Genuine /\ Drained /\ Routable /\ Underway
<1>1. Init => RInv
  BY DEF Init, Genuine, Drained, Routable, Underway
<1>2. TypeInv /\ RInv /\ [Next]_vars => RInv'
  BY GenuineStep, DrainedStep, RoutableStep, UnderwayStep
<1>3. TypeInv /\ RInv => AnswersRouted
  <2> SUFFICES ASSUME TypeInv, RInv, main = "waiting", query \notin channel
               PROVE  LET c == sessions[at] IN
                        /\ query \in waiters[c]
                        /\ IF Holds(c, query) \/ Sent(c, query)
                           THEN thread[c] = "serving" ELSE ~connected[c]
    BY DEF Genuine, AnswersRouted
  <2> DEFINE c == sessions[at]
  <2>1. c \in Clients /\ thread[c] \in {"serving", "ended"}
    BY ListedPastRegistration DEF TypeInv, AtSession
  <2>2. query \in waiters[c]
    BY DEF Routable
  <2>3. thread[c] = "ended" => ~connected[c] /\ upstream[c] = <<>>
    BY DEF Drained, TypeInv, AtSession
  <2>4. thread[c] = "ended" => ~Holds(c, query) /\ ~Sent(c, query)
    BY <2>3 DEF Holds, Sent
  <2>5. ~Holds(c, query) /\ ~Sent(c, query) => ~connected[c]
    BY DEF Underway
  <2> QED
    BY <2>1, <2>2, <2>4, <2>5
<1> QED
  BY <1>1, <1>2, <1>3, TypeInvAlways, PTL DEF Spec

-----------------------------------------------------------------------------
(* The last snapshot on its way to p, or else the one it has, is the       *)
(* stored one.                                                             *)
NoSnapshotAfter(p, i) == \A j \in i + 1..Len(socket[p]) : socket[p][j].kind # "snapshot"
Latest(p) ==
  \/ \E i \in 1..Len(socket[p]) :
       socket[p][i].kind = "snapshot" /\ socket[p][i].n = snapshot /\ NoSnapshotAfter(p, i)
  \/ replica[p] = snapshot /\ NoSnapshotAfter(p, 0)

(* The main loop is in a push that has yet to come to p.                   *)
ToBePushed(p) ==
  \/ main = "storing"
  \/ main = "pushing" /\ \E i \in 1..Len(sessions) : i >= at /\ sessions[i] = p

Informed ==
  \A p \in Plugins :
    /\ thread[p] \in {"hello", "replaying"} => replica[p] = 0
    /\ connected[p] /\ p \notin raced =>
         /\ thread[p] = "registering" => Latest(p)
         /\ thread[p] = "serving" => Latest(p) \/ ToBePushed(p)

LEMMA PluginsAreClients == \A p \in Plugins : p \in Clients
  BY DEF Clients

LEMMA LatestKept ==
  ASSUME NEW p \in Plugins, Latest(p),
         socket'[p] = socket[p], replica'[p] = replica[p], snapshot' = snapshot
  PROVE  Latest(p)'
  BY DEF Latest, NoSnapshotAfter

(* A line is written to p.                                                 *)
LEMMA LatestWritten ==
  ASSUME TypeInv, NEW p \in Plugins, NEW kind, NEW n,
         socket'[p] = Append(socket[p], [kind |-> kind, n |-> n]),
         replica' = replica, snapshot' = snapshot,
         IF kind = "snapshot" THEN n = snapshot ELSE Latest(p)
  PROVE  Latest(p)'
<1> DEFINE line == [kind |-> kind, n |-> n]
<1>1. line.kind = kind /\ line.n = n
  OBVIOUS
<1>2. socket[p] \in Seq(Line)
  BY PluginsAreClients DEF TypeInv, TypeOK
<1>l. PICK len \in Nat : len = Len(socket[p])
  BY <1>2
<1> HIDE DEF line
<1>3. /\ Len(socket'[p]) = len + 1 /\ socket'[p][len + 1] = line
      /\ \A i \in 1..len : socket'[p][i] = socket[p][i]
  BY <1>2, <1>l DEF line
<1>4. CASE kind = "snapshot"
  <2>1. NoSnapshotAfter(p, len + 1)'
    BY <1>3 DEF NoSnapshotAfter
  <2> QED
    BY <1>1, <1>3, <1>4, <2>1 DEF Latest
<1>5. CASE kind # "snapshot"
  <2>1. ASSUME NEW i \in 0..len, NoSnapshotAfter(p, i) PROVE NoSnapshotAfter(p, i)'
    <3> SUFFICES ASSUME NEW j \in i + 1..len + 1 PROVE socket'[p][j].kind # "snapshot"
      BY <1>3 DEF NoSnapshotAfter
    <3>1. CASE j = len + 1
      BY <1>1, <1>3, <1>5, <3>1
    <3>2. CASE j # len + 1
      <4>1. j \in 1..len /\ j \in i + 1..len
        BY <1>3, <3>2
      <4> QED
        BY <1>3, <1>l, <2>1, <4>1 DEF NoSnapshotAfter
    <3> QED
      BY <3>1, <3>2
  <2>2. CASE replica[p] = snapshot /\ NoSnapshotAfter(p, 0)
    BY <1>3, <2>1, <2>2 DEF Latest
  <2>3. ASSUME NEW i \in 1..len,
               socket[p][i].kind = "snapshot", socket[p][i].n = snapshot, NoSnapshotAfter(p, i)
        PROVE  Latest(p)'
    <3>1. i \in 0..len /\ i \in 1..len + 1 /\ socket'[p][i] = socket[p][i]
      BY <1>3
    <3> QED
      BY <1>3, <2>1, <2>3, <3>1 DEF Latest
  <2> QED
    BY <1>5, <1>l, <2>2, <2>3 DEF Latest
<1> QED
  BY <1>4, <1>5

(* p reads the next line.                                                  *)
LEMMA LatestRead ==
  ASSUME TypeInv, NEW p \in Plugins, Latest(p), ClientReads(p)
  PROVE  Latest(p)'
<1> DEFINE line == socket[p][1]
           len == Len(socket[p])
<1>1. socket[p] \in Seq(Line) /\ socket[p] # <<>> /\ snapshot' = snapshot
  BY PluginsAreClients DEF TypeInv, TypeOK, ClientReads, hubVars
<1>2. /\ len \in Nat \ {0} /\ Len(socket'[p]) = len - 1 /\ Head(socket[p]) = line
      /\ \A i \in 1..len - 1 : socket'[p][i] = socket[p][i + 1]
  BY <1>1, PluginsAreClients DEF TypeInv, TypeOK, ClientReads
<1>3. replica'[p] = IF line.kind = "snapshot" THEN line.n ELSE replica[p]
  BY <1>2 DEF TypeInv, TypeOK, ClientReads
<1> HIDE DEF line, len
<1>4. ASSUME NEW i \in 1..len, NoSnapshotAfter(p, i) PROVE NoSnapshotAfter(p, i - 1)'
  <2> SUFFICES ASSUME NEW j \in i..len - 1 PROVE socket'[p][j].kind # "snapshot"
    BY <1>2 DEF NoSnapshotAfter
  <2>1. j + 1 \in i + 1..len /\ j \in 1..len - 1
    BY <1>2
  <2> QED
    BY <1>2, <1>4, <2>1 DEF NoSnapshotAfter, len
<1>5. CASE replica[p] = snapshot /\ NoSnapshotAfter(p, 0)
  <2>1. 1 \in 1..len /\ \A j \in 1..len : socket[p][j].kind # "snapshot"
    BY <1>2, <1>5 DEF NoSnapshotAfter, len
  <2>2. line.kind # "snapshot" /\ replica'[p] = snapshot'
    BY <1>1, <1>3, <1>5, <2>1 DEF line
  <2>3. \A j \in 1..len - 1 : j + 1 \in 1..len
    BY <1>2
  <2>4. NoSnapshotAfter(p, 0)'
    BY <1>2, <2>1, <2>3 DEF NoSnapshotAfter
  <2> QED
    BY <2>2, <2>4 DEF Latest
<1>6. ASSUME NEW i \in 1..len,
             socket[p][i].kind = "snapshot", socket[p][i].n = snapshot, NoSnapshotAfter(p, i)
      PROVE  Latest(p)'
  <2>1. NoSnapshotAfter(p, i - 1)'
    BY <1>4, <1>6
  <2>2. CASE i = 1
    BY <1>1, <1>3, <1>6, <2>1, <2>2 DEF Latest, line
  <2>3. CASE i # 1
    <3>1. i - 1 \in 1..len - 1 /\ socket'[p][i - 1] = socket[p][i]
      BY <1>2, <2>3
    <3> QED
      BY <1>1, <1>2, <1>6, <2>1, <3>1 DEF Latest
  <2> QED
    BY <2>2, <2>3
<1> QED
  BY <1>5, <1>6 DEF Latest, len

(* A step that writes nothing to p and changes nothing it is told of.      *)
LEMMA InformedKept ==
  ASSUME Informed, NEW p \in Plugins,
         snapshot' = snapshot, socket'[p] = socket[p], replica'[p] = replica[p],
         connected'[p] => connected[p], p \notin raced' => p \notin raced,
         thread'[p] = thread[p] \/ thread'[p] = "ended",
         thread[p] = "serving" /\ ToBePushed(p) => ToBePushed(p)' \/ Latest(p)'
  PROVE  /\ thread'[p] \in {"hello", "replaying"} => replica'[p] = 0
         /\ connected'[p] /\ p \notin raced' =>
              /\ thread'[p] = "registering" => Latest(p)'
              /\ thread'[p] = "serving" => Latest(p)' \/ ToBePushed(p)'
<1>1. Latest(p) => Latest(p)'
  BY LatestKept
<1> QED
  BY <1>1 DEF Informed

(* So for every plugin.                                                    *)
LEMMA InformedAll ==
  ASSUME Informed, snapshot' = snapshot, socket' = socket, replica' = replica,
         \A p \in Plugins : connected'[p] => connected[p],
         UNCHANGED <<sessions, raced>>,
         \A p \in Plugins : thread'[p] = thread[p] \/ thread'[p] = "ended",
         main = "storing" => main' = "storing",
         main = "pushing" => main' = "pushing" /\ at' = at
  PROVE  Informed'
<1> SUFFICES ASSUME NEW p \in Plugins
             PROVE  /\ thread'[p] \in {"hello", "replaying"} => replica'[p] = 0
                    /\ connected'[p] /\ p \notin raced' =>
                         /\ thread'[p] = "registering" => Latest(p)'
                         /\ thread'[p] = "serving" => Latest(p)' \/ ToBePushed(p)'
  BY DEF Informed
<1>1. ToBePushed(p) => ToBePushed(p)'
  BY DEF ToBePushed
<1> QED
  BY <1>1, InformedKept

LEMMA InformedThread ==
  ASSUME TypeInv, Informed, NEW c \in Clients, Thread(c)
  PROVE  Informed'
<1>1. CASE ServeAnswer(c) \/ ServeEof(c)
  <2>1. /\ UNCHANGED <<snapshot, socket, replica, connected, sessions, raced, main, at>>
        /\ \A p \in Plugins : thread'[p] = thread[p] \/ thread'[p] = "ended"
    BY <1>1, PluginsAreClients DEF TypeInv, TypeOK, ServeAnswer, ServeEof, To, mainVars, clientVars
  <2> QED
    BY <2>1, InformedAll
<1> SUFFICES ASSUME Hello(c) \/ Replay(c) \/ Register(c), NEW p \in Plugins
             PROVE  /\ thread'[p] \in {"hello", "replaying"} => replica'[p] = 0
                    /\ connected'[p] /\ p \notin raced' =>
                         /\ thread'[p] = "registering" => Latest(p)'
                         /\ thread'[p] = "serving" => Latest(p)' \/ ToBePushed(p)'
  BY <1>1 DEF Informed, Thread
<1>2. /\ UNCHANGED <<snapshot, replica, connected, raced, main, at>>
      /\ p # c => thread'[p] = thread[p] /\ socket'[p] = socket[p]
  BY PluginsAreClients
  DEF TypeInv, TypeOK, Hello, Replay, Register, To, Write, mainVars, clientVars
<1>3. ToBePushed(p) => ToBePushed(p)'
  <2>1. CASE Hello(c) \/ Replay(c)
    BY <1>2, <2>1 DEF Hello, Replay, ToBePushed
  <2>2. CASE Register(c)
    <3>1. /\ Len(sessions') = Len(sessions) + 1 /\ Len(sessions) \in Nat
          /\ \A i \in 1..Len(sessions) : sessions'[i] = sessions[i]
      BY <2>2 DEF Register, TypeInv, TypeOK
    <3>2. \A i \in 1..Len(sessions) : i \in 1..Len(sessions')
      BY <3>1
    <3> QED
      BY <1>2, <3>1, <3>2 DEF ToBePushed
  <2> QED
    BY <2>1, <2>2
<1>4. CASE p # c
  BY <1>2, <1>3, <1>4, InformedKept
<1>5. CASE p = c /\ Hello(c)
  <2>1. thread[p] = "hello" /\ thread'[p] \in {"replaying", "ended"}
    BY <1>5, PluginsAreClients DEF TypeInv, TypeOK, Hello, To
  <2> QED
    BY <1>2, <2>1 DEF Informed
<1>6. CASE p = c /\ Replay(c)
  <2>1. thread[p] = "replaying" /\ thread'[p] \in {"registering", "ended"}
    BY <1>6, PluginsAreClients DEF TypeInv, TypeOK, Replay, To
  <2>2. socket[p] = <<>> /\ replica[p] = 0
    BY <2>1, PluginsAreClients DEF TypeInv, Staged, Informed
  <2>3. CASE snapshot = 0 /\ UNCHANGED socket
    <3>1. NoSnapshotAfter(p, 0)'
      BY <2>2, <2>3 DEF NoSnapshotAfter
    <3> QED
      BY <1>2, <2>1, <2>2, <2>3, <3>1 DEF Latest
  <2>4. CASE socket' = Write(c, "snapshot", snapshot)
    <3>1. socket'[p] = Append(socket[p], [kind |-> "snapshot", n |-> snapshot])
      BY <1>6, <2>4, PluginsAreClients DEF TypeInv, TypeOK, Write
    <3>2. Latest(p)'
      BY <1>2, <3>1, LatestWritten
    <3> QED
      BY <2>1, <3>2
  <2>5. CASE thread'[p] = "ended"
    BY <2>5
  <2> QED
    BY <1>6, <2>3, <2>4, <2>5, PluginsAreClients DEF TypeInv, TypeOK, Replay, To
<1>7. CASE p = c /\ Register(c)
  <2>1. /\ thread[p] = "registering" /\ thread'[p] = "serving"
        /\ socket'[p] = socket[p] /\ replica' = replica
    BY <1>7, PluginsAreClients DEF TypeInv, TypeOK, Register, To, clientVars
  <2>2. Latest(p) => Latest(p)'
    BY <1>2, <2>1, LatestKept
  <2> QED
    BY <1>2, <2>1, <2>2 DEF Informed
<1> QED
  BY <1>4, <1>5, <1>6, <1>7

LEMMA InformedClient ==
  ASSUME TypeInv, Informed,
         NEW c \in Clients,
         \/ ClientReads(c) \/ ClientLeaves(c)
         \/ c \in Plugins /\ \E q \in asked[c] : PluginReplies(c, q)
  PROVE  Informed'
<1>1. CASE c \in Plugins /\ \E q \in asked[c] : PluginReplies(c, q)
  BY <1>1, InformedAll DEF PluginReplies, hubVars, mainVars
<1> SUFFICES ASSUME ClientReads(c) \/ ClientLeaves(c), NEW p \in Plugins
             PROVE  /\ thread'[p] \in {"hello", "replaying"} => replica'[p] = 0
                    /\ connected'[p] /\ p \notin raced' =>
                         /\ thread'[p] = "registering" => Latest(p)'
                         /\ thread'[p] = "serving" => Latest(p)' \/ ToBePushed(p)'
  BY <1>1 DEF Informed
<1>2. /\ UNCHANGED <<snapshot, sessions, thread, main, at, raced>>
      /\ connected'[p] => connected[p]
      /\ p # c => socket'[p] = socket[p] /\ replica'[p] = replica[p]
  BY PluginsAreClients DEF TypeInv, TypeOK, ClientReads, ClientLeaves, hubVars, mainVars
<1>3. ToBePushed(p) => ToBePushed(p)'
  BY <1>2 DEF ToBePushed
<1>4. CASE p # c
  BY <1>2, <1>3, <1>4, InformedKept
<1>5. CASE p = c /\ ClientLeaves(c)
  BY <1>2, <1>5, PluginsAreClients DEF TypeInv, TypeOK, ClientLeaves, Informed
<1>6. CASE p = c /\ ClientReads(c)
  <2>1. thread[p] \notin {"hello", "replaying"}
    BY <1>6 DEF TypeInv, Staged, ClientReads
  <2>2. Latest(p) => Latest(p)'
    BY <1>6, LatestRead
  <2> QED
    BY <1>2, <1>3, <2>1, <2>2 DEF Informed
<1> QED
  BY <1>4, <1>5, <1>6

LEMMA InformedMain ==
  ASSUME TypeInv, Informed, MainBegins \/ MainGoesOn
  PROVE  Informed'
<1>1. CASE RequestSaves \/ AskNobody \/ Ask \/ Answered \/ TimesOut
  BY <1>1, InformedAll DEF RequestSaves, AskNobody, Ask, Answered, TimesOut, hubVars, clientVars
<1> SUFFICES ASSUME SetSnapshot \/ LockSessions \/ WriteNext \/ RoundEnds \/ AskWrite,
                    NEW p \in Plugins
             PROVE  /\ thread'[p] \in {"hello", "replaying"} => replica'[p] = 0
                    /\ connected'[p] /\ p \notin raced' =>
                         /\ thread'[p] = "registering" => Latest(p)'
                         /\ thread'[p] = "serving" => Latest(p)' \/ ToBePushed(p)'
  BY <1>1 DEF Informed, MainBegins, MainGoesOn
<1>2. UNCHANGED <<sessions, thread, replica, connected>>
  BY DEF SetSnapshot, LockSessions, WriteNext, RoundEnds, AskWrite, hubVars, clientVars
<1>3. CASE SetSnapshot
  <2>1. /\ raced' = {q \in Plugins : thread[q] = "registering"} /\ main' = "storing"
    BY <1>3 DEF SetSnapshot
  <2> QED
    BY <1>2, <2>1 DEF Informed, ToBePushed
<1>4. CASE LockSessions
  <2>1. /\ main = "storing" /\ main' = "pushing" /\ at' = 1
        /\ raced' = {q \in raced : thread[q] = "registering"}
        /\ UNCHANGED <<snapshot, socket>>
    BY <1>4 DEF LockSessions, hubVars, clientVars
  <2>2. thread[p] = "serving" => ToBePushed(p)'
    BY <1>2, <2>1, PluginsAreClients DEF TypeInv, Staged, ToBePushed
  <2>3. Latest(p) => Latest(p)'
    BY <1>2, <2>1, LatestKept
  <2> QED
    BY <1>2, <2>1, <2>2, <2>3 DEF Informed
<1>5. CASE RoundEnds
  <2>1. UNCHANGED <<snapshot, socket, raced>> /\ main # "storing" /\ at > Len(sessions)
    BY <1>5 DEF RoundEnds, hubVars, clientVars
  <2>2. ~ToBePushed(p)
    BY <2>1 DEF ToBePushed, TypeInv, TypeOK
  <2> QED
    BY <1>2, <2>1, <2>2, InformedKept
<1>6. CASE AskWrite
  <2> DEFINE c == sessions[at]
  <2>1. /\ c \in Clients /\ UNCHANGED <<snapshot, raced>> /\ main = "asking"
    BY <1>6 DEF AskWrite, TypeInv, TypeOK, AtSession, hubVars
  <2>2. socket' = socket \/ socket' = Write(c, "query", query)
    BY <1>6 DEF AskWrite
  <2> HIDE DEF c
  <2>3. Latest(p) => Latest(p)'
    <3>1. CASE socket'[p] = socket[p]
      BY <1>2, <2>1, <3>1, LatestKept
    <3>2. CASE socket'[p] = Append(socket[p], [kind |-> "query", n |-> query])
      BY <1>2, <2>1, <3>2, LatestWritten
    <3> QED
      BY <2>1, <2>2, <3>1, <3>2, PluginsAreClients DEF TypeInv, TypeOK, Write
  <2> QED
    BY <1>2, <2>1, <2>3 DEF Informed, ToBePushed
<1>7. CASE WriteNext
  <2> DEFINE c == sessions[at]
  <2>1. /\ c \in Clients /\ UNCHANGED <<snapshot, raced, main>> /\ at' = at + 1 /\ at \in Nat
        /\ main \in {"pushing", "saving"}
    BY <1>7 DEF WriteNext, TypeInv, TypeOK, AtSession, hubVars
  <2>2. \/ /\ Addressed(c)
           /\ socket' = IF main = "pushing" THEN Write(c, "snapshot", snapshot)
                                            ELSE Write(c, "saveFiles", saves)
        \/ ~(Addressed(c) /\ connected[c]) /\ socket' = socket
    BY <1>7 DEF WriteNext
  <2>3. CASE main = "pushing" /\ c = p /\ thread[p] = "serving" /\ connected[p]
    <3>1. Addressed(p)
      BY <2>3, PluginsAreClients DEF Addressed, TypeInv, Staged
    <3>2. socket'[p] = Append(socket[p], [kind |-> "snapshot", n |-> snapshot])
      BY <2>2, <2>3, <3>1, PluginsAreClients DEF TypeInv, TypeOK, Write
    <3>3. Latest(p)'
      BY <1>2, <2>1, <3>2, LatestWritten
    <3> QED
      BY <1>2, <2>3, <3>3
  <2>4. CASE ~(main = "pushing" /\ c = p /\ thread[p] = "serving" /\ connected[p])
    <3>1. connected[p] /\ thread[p] = "serving" /\ ToBePushed(p) => ToBePushed(p)'
      <4> SUFFICES ASSUME connected[p], thread[p] = "serving", main = "pushing",
                          NEW i \in 1..Len(sessions), i >= at, sessions[i] = p
                   PROVE  ToBePushed(p)'
        BY <2>1 DEF ToBePushed
      <4>1. i # at /\ i >= at + 1
        BY <2>1, <2>4
      <4> QED
        BY <1>2, <2>1, <4>1 DEF ToBePushed
    <3>2. Latest(p) => Latest(p)'
      <4>1. CASE socket'[p] = socket[p]
        BY <1>2, <2>1, <4>1, LatestKept
      <4>2. CASE socket'[p] = Append(socket[p], [kind |-> "snapshot", n |-> snapshot])
        BY <1>2, <2>1, <4>2, LatestWritten
      <4>3. CASE socket'[p] = Append(socket[p], [kind |-> "saveFiles", n |-> saves])
        BY <1>2, <2>1, <4>3, LatestWritten
      <4> QED
        BY <2>1, <2>2, <4>1, <4>2, <4>3, PluginsAreClients DEF TypeInv, TypeOK, Write
    <3> QED
      BY <1>2, <2>1, <3>1, <3>2 DEF Informed
  <2> QED
    BY <2>3, <2>4
<1> QED
  BY <1>3, <1>4, <1>5, <1>6, <1>7

LEMMA InformedAlways == Spec => []Informed
<1>1. Init => Informed
  <2> SUFFICES ASSUME Init PROVE Informed
    OBVIOUS
  <2>1. \A p \in Plugins : replica[p] = 0 /\ thread[p] = "hello"
    BY PluginsAreClients DEF Init
  <2> QED
    BY <2>1 DEF Informed
<1>2. TypeInv /\ Informed /\ [Next]_vars => Informed'
  <2>1. ASSUME Informed, UNCHANGED vars PROVE Informed'
    BY <2>1, InformedAll DEF vars, hubVars, mainVars, clientVars
  <2> QED
    BY <2>1, InformedThread, InformedClient, InformedMain, PluginsAreClients DEF Next
<1> QED
  BY <1>1, <1>2, TypeInvAlways, PTL DEF Spec

(* When nothing is on its way any more, every plugin answers from the      *)
(* stored snapshot, but for those the known race has passed over           *)
(* (set_snapshot against serve_plugin).                                    *)
THEOREM CaughtUp == Spec => []CaughtUpUnlessRaced
<1>1. TypeInv /\ Informed => CaughtUpUnlessRaced
  <2> SUFFICES ASSUME TypeInv, Informed, NEW p \in Plugins, Settled(p), p \notin raced
               PROVE  replica[p] = snapshot
    BY DEF CaughtUpUnlessRaced
  <2>1. thread[p] = "serving" /\ connected[p] /\ ~ToBePushed(p) /\ Len(socket[p]) = 0
    BY PluginsAreClients DEF Settled, TypeInv, Staged, ToBePushed
  <2>2. Latest(p)
    BY <2>1 DEF Informed
  <2> QED
    BY <2>1, <2>2 DEF Latest
<1> QED
  BY <1>1, TypeInvAlways, InformedAlways, PTL
=============================================================================
