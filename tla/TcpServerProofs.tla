-------------------------- MODULE TcpServerProofs ---------------------------
(* Proofs about TcpServer, for any number of threads and connections: the  *)
(* map of connections, what can end the program, and what keeps the        *)
(* destructor from waiting for ever.                                       *)
EXTENDS TcpServer, SequenceTheorems, FiniteSetTheorems, TLAPS

Conn == [loop : Threads \cup {Main}, state : {"queued", "up", "closed"}]
Task == [op : {"set", "connect", "close"}, conn : Nat]

\* The types of the variables the map depends on; round robin stays inside
\* reactors_, and a closure is queued to the Looper of its connection.
TypeOK ==
  /\ pool \subseteq Threads
  /\ reactors \in Seq(Threads)
  /\ thread \in [Threads -> {"none", "created", "published", "looping", "returned"}]
  /\ main \in {"new", "looping", "shutdown", "ending", "stopping", "done"}
  /\ index \in Nat \ {0} /\ (main # "done" => index <= Len(reactors) + 1)
  /\ conns \in Seq(Conn)
  /\ connections \subseteq Conns
  /\ tasks \in [Threads -> Seq(Task)]
  /\ \A t \in Threads : \A i \in DOMAIN tasks[t] :
       tasks[t][i].conn \in Conns /\ conns[tasks[t][i].conn].loop = t

\* A server without a pool has one Looper.
WithoutPool ==
  pool = {} =>
    /\ \A t \in Threads : thread[t] = "none"
    /\ main # "done" => reactors = <<>>
    /\ \A c \in Conns : conns[c].loop = Main

BeforeStart ==
  main = "new" =>
    /\ connections = {} /\ conns = <<>>
    /\ \A t \in Threads : tasks[t] = <<>> /\ thread[t] = "none"
    /\ reactors = <<>>

\* While the server accepts, the pool's closures establish connections that
\* the map holds, and connections of the pool are never removed.
Accepting ==
  Ok /\ main = "looping" =>
    /\ connections = Open
    /\ \A t \in Threads : \A i \in DOMAIN tasks[t] : tasks[t][i].op \in {"set", "connect"}
    /\ \A c \in Conns : conns[c].loop # Main => c \in connections

\* Until the server is destroyed the map has what is open on the main thread,
\* and shutdown() still has to go through it.
Own ==
  Ok =>
    /\ main \in {"looping", "shutdown", "ending"} =>
         \A c \in Conns : conns[c].loop = Main /\ conns[c].state # "closed" => c \in connections
    /\ main = "shutdown" =>
         \A c \in Conns : conns[c].loop = Main /\ conns[c].state # "closed" => c \in unclosed

\* Without a pool, after shutdown().
Left ==
  Ok /\ pool = {} =>
    /\ main = "ending" => connections = Open /\ (Acceptor \in batch => Open = {})
    /\ main \in {"ending", "stopping", "done"} => \A c, d \in Open : c = d

IInv == TypeOK /\ WithoutPool /\ BeforeStart /\ Accepting /\ Own /\ Left

\* A sequence and one more element.
LEMMA Appended ==
  ASSUME NEW S, NEW s \in Seq(S), NEW x \in S
  PROVE  /\ Append(s, x) \in Seq(S)
         /\ DOMAIN Append(s, x) = DOMAIN s \cup {Len(s) + 1}
         /\ Len(s) + 1 \notin DOMAIN s
         /\ Append(s, x)[Len(s) + 1] = x
         /\ \A i \in DOMAIN s : Append(s, x)[i] = s[i]
<1>1. Append(s, x) \in Seq(S) /\ Len(Append(s, x)) = Len(s) + 1 /\ Len(s) \in Nat
  OBVIOUS
<1>2. DOMAIN Append(s, x) = 1 .. Len(s) + 1 /\ DOMAIN s = 1 .. Len(s)
  BY <1>1
<1> QED
  BY <1>1, <1>2

\* A sequence and two more.
LEMMA Extended ==
  ASSUME NEW S, NEW s \in Seq(S), NEW x \in S, NEW y \in S
  PROVE  /\ s \o <<x, y>> \in Seq(S)
         /\ \A i \in DOMAIN (s \o <<x, y>>) :
              \/ i \in DOMAIN s /\ (s \o <<x, y>>)[i] = s[i]
              \/ (s \o <<x, y>>)[i] \in {x, y}
<1>1. <<x, y>> \in Seq(S) /\ Len(<<x, y>>) = 2 /\ Len(s) \in Nat
  OBVIOUS
<1>2. s \o <<x, y>> \in Seq(S) /\ Len(s \o <<x, y>>) = Len(s) + 2
  BY <1>1
<1>3. DOMAIN (s \o <<x, y>>) = 1 .. Len(s) + 2 /\ DOMAIN s = 1 .. Len(s)
  BY <1>1, <1>2
<1>4. \A i \in 1 .. Len(s) + 2 :
        (s \o <<x, y>>)[i] = IF i <= Len(s) THEN s[i] ELSE <<x, y>>[i - Len(s)]
  BY <1>1
<1>5. <<x, y>>[1] = x /\ <<x, y>>[2] = y
  OBVIOUS
<1>6. ASSUME NEW i \in 1 .. Len(s) + 2, ~(i <= Len(s))  PROVE i - Len(s) \in {1, 2}
  BY <1>1, <1>6
<1> QED
  BY <1>2, <1>3, <1>4, <1>5, <1>6

\* onAccept() chooses the own Looper or one of the pool.
LEMMA Chosen ==
  ASSUME IInv, Accept
  PROVE  /\ \E l \in Threads \cup {Main} : NewConnection(l) /\ (pool = {} => l = Main)
         /\ index' \in Nat \ {0} /\ index' <= Len(reactors) + 1
<1> USE TcpServerAssumption DEF IInv
<1>1. Ok /\ main \in {"looping", "ending"}
  BY DEF Accept, Calls
<1>2. CASE reactors = <<>> /\ NewConnection(Main) /\ UNCHANGED index
  BY <1>1, <1>2 DEF TypeOK
<1>3. CASE reactors # <<>> /\ index' = NextIndex /\ NewConnection(reactors[NextIndex - 1])
  <2>1. /\ NextIndex - 1 \in 1 .. Len(reactors) /\ NextIndex \in Nat \ {0}
        /\ NextIndex <= Len(reactors) + 1
    BY <1>1, <1>3, EmptySeq DEF NextIndex, TypeOK
  <2>2. reactors[NextIndex - 1] \in Threads /\ pool # {}
    BY <1>1, <1>3, <2>1 DEF TypeOK, WithoutPool
  <2> QED
    BY <1>3, <2>1, <2>2
<1>4. CASE reactors # <<>> /\ UNCHANGED index /\ \E i \in Lightest : NewConnection(reactors[i])
  <2>1. PICK i \in Lightest : NewConnection(reactors[i])
    BY <1>4
  <2>2. reactors[i] \in Threads /\ pool # {}
    BY <1>1, <1>4 DEF Lightest, TypeOK, WithoutPool
  <2>3. index' \in Nat \ {0} /\ index' <= Len(reactors) + 1
    BY <1>1, <1>4 DEF TypeOK
  <2> QED
    BY <2>1, <2>2, <2>3
<1> QED
  BY <1>2, <1>3, <1>4 DEF Accept

\* A connection for the Looper l: what becomes of the sequences.
LEMMA NewConnectionAdds ==
  ASSUME TypeOK, NEW l \in Threads \cup {Main}, NewConnection(l),
         NEW c, c = Len(conns) + 1,
         NEW r, r = [loop |-> l, state |-> IF l = Main THEN "up" ELSE "queued"]
  PROVE  /\ conns' \in Seq(Conn) /\ Conns' = Conns \cup {c} /\ c \notin Conns /\ c \in Nat
         /\ c # Acceptor
         /\ conns'[c] = r /\ \A d \in Conns : conns'[d] = conns[d]
         /\ tasks' \in [Threads -> Seq(Task)]
         /\ \A t \in Threads : \A i \in DOMAIN tasks'[t] :
              \/ i \in DOMAIN tasks[t] /\ tasks'[t][i] = tasks[t][i]
              \/ /\ t = l /\ l # Main /\ tasks'[t][i].conn = c
                 /\ tasks'[t][i].op \in {"set", "connect"}
         /\ connections' = connections \cup {c}
<1>1. /\ conns' \in Seq(Conn) /\ Conns' = Conns \cup {c} /\ c \notin Conns /\ c \in Nat
      /\ c # Acceptor /\ conns'[c] = r /\ \A d \in Conns : conns'[d] = conns[d]
  <2>1. r \in Conn /\ conns \in Seq(Conn) /\ conns' = Append(conns, r)
    BY DEF Conn, TypeOK, NewConnection
  <2>2. c \in Nat /\ c # Acceptor
    BY <2>1 DEF Acceptor
  <2> QED
    BY <2>1, <2>2, Appended DEF Conns
<1>2. /\ tasks' \in [Threads -> Seq(Task)]
      /\ \A t \in Threads : \A i \in DOMAIN tasks'[t] :
           \/ i \in DOMAIN tasks[t] /\ tasks'[t][i] = tasks[t][i]
           \/ /\ t = l /\ l # Main /\ tasks'[t][i].conn = c
              /\ tasks'[t][i].op \in {"set", "connect"}
  <2>1. CASE l = Main
    BY <2>1 DEF NewConnection, TypeOK
  <2>2. CASE l # Main
    <3>0. PICK x, y : x = [op |-> "set", conn |-> c] /\ y = [op |-> "connect", conn |-> c]
      OBVIOUS
    <3>1. x \in Task /\ y \in Task
      BY <1>1, <3>0 DEF Task
    <3>2. tasks' = [tasks EXCEPT ![l] = tasks[l] \o <<x, y>>] /\ l \in Threads
      BY <2>2, <3>0 DEF NewConnection
    <3>3. tasks[l] \in Seq(Task)
      BY <3>2 DEF TypeOK
    <3>4. /\ tasks[l] \o <<x, y>> \in Seq(Task)
          /\ \A i \in DOMAIN (tasks[l] \o <<x, y>>) :
               \/ i \in DOMAIN tasks[l] /\ (tasks[l] \o <<x, y>>)[i] = tasks[l][i]
               \/ (tasks[l] \o <<x, y>>)[i] \in {x, y}
      BY <3>1, <3>3, Extended
    <3>5. \A z \in {x, y} : z.conn = c /\ z.op \in {"set", "connect"}
      BY <3>0
    <3>6. ASSUME NEW t \in Threads
          PROVE  /\ tasks'[t] \in Seq(Task)
                 /\ \A i \in DOMAIN tasks'[t] :
                      \/ i \in DOMAIN tasks[t] /\ tasks'[t][i] = tasks[t][i]
                      \/ t = l /\ tasks'[t][i] \in {x, y}
      <4>1. CASE t = l
        BY <3>2, <3>4, <4>1 DEF TypeOK
      <4>2. CASE t # l
        BY <3>2, <4>2 DEF TypeOK
      <4> QED
        BY <4>1, <4>2
    <3>7. tasks' \in [Threads -> Seq(Task)]
      BY <3>2, <3>4 DEF TypeOK
    <3> QED
      BY <2>2, <3>5, <3>6, <3>7
  <2> QED
    BY <2>1, <2>2
<1> QED
  BY <1>1, <1>2 DEF NewConnection

\* An accepted connection keeps the invariant.
LEMMA AcceptKeeps ==
  ASSUME IInv, Accept
  PROVE  IInv'
<1> USE TcpServerAssumption DEF IInv
<1>0. PICK l \in Threads \cup {Main} : NewConnection(l) /\ (pool = {} => l = Main)
  BY Chosen
<1>0a. PICK c, r : /\ c = Len(conns) + 1
                   /\ r = [loop |-> l, state |-> IF l = Main THEN "up" ELSE "queued"]
  OBVIOUS
<1>1. /\ Ok /\ main \in {"looping", "ending"} /\ Acceptor \in batch
      /\ batch' = batch \ {Acceptor}
      /\ UNCHANGED <<pool, reactors, thread, main, unclosed, outcome>>
  BY DEF Accept, Calls
<1>2. /\ conns' \in Seq(Conn) /\ Conns' = Conns \cup {c} /\ c \notin Conns /\ c \in Nat
      /\ conns'[c] = r /\ \A d \in Conns : conns'[d] = conns[d]
  BY <1>0, <1>0a, NewConnectionAdds
<1>3. /\ tasks' \in [Threads -> Seq(Task)]
      /\ \A t \in Threads : \A i \in DOMAIN tasks'[t] :
           \/ i \in DOMAIN tasks[t] /\ tasks'[t][i] = tasks[t][i]
           \/ /\ t = l /\ l # Main /\ tasks'[t][i].conn = c
              /\ tasks'[t][i].op \in {"set", "connect"}
  BY <1>0, <1>0a, NewConnectionAdds
<1>4. connections' = connections \cup {c}
  BY <1>0, <1>0a, NewConnectionAdds
<1>5. r.loop = l /\ r.state \in {"queued", "up"}
  BY <1>0a
<1>6. Open' = Open \cup {c}
  BY <1>2, <1>5 DEF Open
<1>7. ASSUME NEW t \in Threads, NEW i \in DOMAIN tasks'[t]
      PROVE  tasks'[t][i].conn \in Conns' /\ conns'[tasks'[t][i].conn].loop = t
  <2>1. CASE i \in DOMAIN tasks[t] /\ tasks'[t][i] = tasks[t][i]
    <3>1. tasks[t][i].conn \in Conns /\ conns[tasks[t][i].conn].loop = t
      BY <2>1 DEF TypeOK
    <3> QED
      BY <1>2, <2>1, <3>1
  <2>2. CASE t = l /\ tasks'[t][i].conn = c
    BY <1>2, <1>5, <2>2
  <2> QED
    BY <1>3, <2>1, <2>2
<1>8. TypeOK'
  <2>1. index' \in Nat \ {0} /\ index' <= Len(reactors) + 1
    BY Chosen
  <2>2. connections' \subseteq Conns'
    BY <1>2, <1>4 DEF TypeOK
  <2> QED
    BY <1>1, <1>2, <1>3, <1>7, <2>1, <2>2 DEF TypeOK
<1>9. WithoutPool' /\ BeforeStart'
  BY <1>0, <1>1, <1>2, <1>5 DEF WithoutPool, BeforeStart
<1>10. Accepting'
  <2>1. main = "looping" => connections' = Open'
    BY <1>1, <1>4, <1>6 DEF Accepting
  <2>2. main = "looping" => \A d \in Conns' : conns'[d].loop # Main => d \in connections'
    BY <1>1, <1>2, <1>4 DEF Accepting
  <2>3. ASSUME main = "looping", NEW t \in Threads, NEW i \in DOMAIN tasks'[t]
        PROVE  tasks'[t][i].op \in {"set", "connect"}
    BY <1>1, <1>3, <2>3 DEF Accepting
  <2> QED
    BY <1>1, <2>1, <2>2, <2>3 DEF Accepting
<1>11. Own'
  BY <1>1, <1>2, <1>4 DEF Own
<1>12. Left'
  <2>1. pool = {} /\ main = "ending" => connections = Open /\ Open = {}
    BY <1>1 DEF Left
  <2> QED
    BY <1>1, <1>4, <1>6, <2>1 DEF Left
<1> QED
  BY <1>8, <1>9, <1>10, <1>11, <1>12

\* A change of the state of one connection.
LEMMA StateSet ==
  ASSUME conns \in Seq(Conn), NEW c \in Conns, NEW s \in {"queued", "up", "closed"},
         conns' = [conns EXCEPT ![c].state = s]
  PROVE  /\ conns' \in Seq(Conn) /\ Conns' = Conns
         /\ conns'[c].state = s /\ conns'[c].loop = conns[c].loop
         /\ \A d \in Conns \ {c} : conns'[d] = conns[d]
<1> DEFINE r == [conns[c] EXCEPT !.state = s]
<1>0. conns[c] \in Conn
  BY DEF Conns
<1>1. r \in Conn /\ r.state = s /\ r.loop = conns[c].loop
  BY <1>0 DEF Conn
<1>2. conns' = [conns EXCEPT ![c] = r]
  OBVIOUS
<1> HIDE DEF r
<1> QED
  BY <1>1, <1>2 DEF Conns

\* A closure of a Looper of the pool.
LEMMA RunTaskTakes ==
  ASSUME TypeOK, NEW t \in Threads, RunTask(t), NEW k, k = Head(tasks[t])
  PROVE  /\ Ok /\ thread[t] = "looping" /\ 1 \in DOMAIN tasks[t] /\ k = tasks[t][1]
         /\ k \in Task /\ k.conn \in Conns /\ conns[k.conn].loop = t
         /\ tasks' \in [Threads -> Seq(Task)]
         /\ \A u \in Threads : \A i \in DOMAIN tasks'[u] :
              \E j \in DOMAIN tasks[u] : tasks'[u][i] = tasks[u][j]
         /\ conns' \in Seq(Conn) /\ Conns' = Conns
         /\ \A d \in Conns : conns'[d].loop = conns[d].loop
         /\ \A d \in Conns \ {k.conn} : conns'[d] = conns[d]
         /\ \/ k.op = "set" /\ outcome' \in {"ok", "dangling"} /\ UNCHANGED conns
            \/ k.op = "connect" /\ conns'[k.conn].state = "up" /\ UNCHANGED outcome
            \/ /\ k.op = "close" /\ k.conn \in connections /\ conns'[k.conn].state = "closed"
               /\ UNCHANGED outcome
            \/ /\ k.op = "close" /\ k.conn \notin connections /\ outcome' = "entry"
               /\ UNCHANGED conns
<1>1. /\ tasks[t] \in Seq(Task) /\ tasks[t] # <<>> /\ Ok /\ thread[t] = "looping"
      /\ tasks \in [Threads -> Seq(Task)] /\ tasks' = [tasks EXCEPT ![t] = Tail(tasks[t])]
  BY DEF RunTask, TypeOK
<1>2. /\ k = tasks[t][1] /\ k \in Task /\ 1 \in DOMAIN tasks[t]
      /\ Tail(tasks[t]) \in Seq(Task)
      /\ \A i \in DOMAIN Tail(tasks[t]) :
           i + 1 \in DOMAIN tasks[t] /\ Tail(tasks[t])[i] = tasks[t][i + 1]
  BY <1>1
<1>3. /\ tasks' \in [Threads -> Seq(Task)]
      /\ \A u \in Threads : \A i \in DOMAIN tasks'[u] :
           \E j \in DOMAIN tasks[u] : tasks'[u][i] = tasks[u][j]
  <2>1. tasks' \in [Threads -> Seq(Task)]
    BY <1>1, <1>2
  <2>2. ASSUME NEW u \in Threads, NEW i \in DOMAIN tasks'[u]
        PROVE  \E j \in DOMAIN tasks[u] : tasks'[u][i] = tasks[u][j]
    <3>1. CASE u = t
      BY <1>1, <1>2, <3>1
    <3>2. CASE u # t
      <4>1. tasks'[u] = tasks[u]
        BY <1>1, <3>2
      <4> QED
        BY <4>1
    <3> QED
      BY <3>1, <3>2
  <2> QED
    BY <2>1, <2>2
<1>4. k.conn \in Conns /\ conns[k.conn].loop = t
  BY <1>2 DEF TypeOK
<1>5. \/ k.op = "set" /\ outcome' \in {"ok", "dangling"} /\ UNCHANGED conns
      \/ /\ k.op = "connect" /\ conns' = [conns EXCEPT ![k.conn].state = "up"]
         /\ UNCHANGED outcome
      \/ /\ k.op = "close" /\ k.conn \in connections
         /\ conns' = [conns EXCEPT ![k.conn].state = "closed"] /\ UNCHANGED outcome
      \/ /\ k.op = "close" /\ k.conn \notin connections /\ outcome' = "entry"
         /\ UNCHANGED conns
  BY DEF RunTask
<1>6. conns \in Seq(Conn)
  BY DEF TypeOK
<1>7. CASE /\ UNCHANGED conns
           /\ \/ k.op = "set" /\ outcome' \in {"ok", "dangling"}
              \/ k.op = "close" /\ k.conn \notin connections /\ outcome' = "entry"
  <2>1. Conns' = Conns /\ conns' \in Seq(Conn)
    BY <1>6, <1>7 DEF Conns
  <2> QED
    BY <1>1, <1>2, <1>3, <1>4, <1>7, <2>1
<1>8. ASSUME NEW s \in {"up", "closed"}, conns' = [conns EXCEPT ![k.conn].state = s]
      PROVE  /\ conns' \in Seq(Conn) /\ Conns' = Conns /\ conns'[k.conn].state = s
             /\ \A d \in Conns : conns'[d].loop = conns[d].loop
             /\ \A d \in Conns \ {k.conn} : conns'[d] = conns[d]
  <2>1. s \in {"queued", "up", "closed"}
    OBVIOUS
  <2>2. /\ conns' \in Seq(Conn) /\ Conns' = Conns /\ conns'[k.conn].state = s
        /\ conns'[k.conn].loop = conns[k.conn].loop
        /\ \A d \in Conns \ {k.conn} : conns'[d] = conns[d]
    BY <1>4, <1>6, <1>8, <2>1, StateSet
  <2> QED
    BY <2>2
<1>9. CASE k.op = "connect" /\ conns' = [conns EXCEPT ![k.conn].state = "up"]
           /\ UNCHANGED outcome
  <2>1. /\ conns' \in Seq(Conn) /\ Conns' = Conns /\ conns'[k.conn].state = "up"
        /\ \A d \in Conns : conns'[d].loop = conns[d].loop
        /\ \A d \in Conns \ {k.conn} : conns'[d] = conns[d]
    BY <1>8, <1>9
  <2> QED
    BY <1>1, <1>2, <1>3, <1>4, <1>9, <2>1
<1>10. CASE k.op = "close" /\ k.conn \in connections /\ UNCHANGED outcome
            /\ conns' = [conns EXCEPT ![k.conn].state = "closed"]
  <2>1. /\ conns' \in Seq(Conn) /\ Conns' = Conns /\ conns'[k.conn].state = "closed"
        /\ \A d \in Conns : conns'[d].loop = conns[d].loop
        /\ \A d \in Conns \ {k.conn} : conns'[d] = conns[d]
    BY <1>8, <1>10
  <2> QED
    BY <1>1, <1>2, <1>3, <1>4, <1>10, <2>1
<1> QED
  BY <1>5, <1>7, <1>9, <1>10

\* One round of the loop of shutdown().
LEMMA ClosesOne ==
  ASSUME TypeOK, NEW c \in Conns, ShutdownCloses(c)
  PROVE  /\ Ok /\ main = "shutdown" /\ c \in unclosed /\ unclosed' = unclosed \ {c}
         /\ UNCHANGED <<pool, reactors, thread, index, main, batch, cleared, connections, outcome>>
         /\ conns' \in Seq(Conn) /\ Conns' = Conns
         /\ \A d \in Conns : conns'[d].loop = conns[d].loop
         /\ \A d \in Conns \ {c} : conns'[d] = conns[d]
         /\ conns[c].loop = Main => conns'[c].state = "closed"
         /\ conns[c].loop # Main => UNCHANGED conns /\ conns[c].loop \in Threads
         /\ tasks' \in [Threads -> Seq(Task)]
         /\ \A t \in Threads : \A i \in DOMAIN tasks'[t] :
              \/ i \in DOMAIN tasks[t] /\ tasks'[t][i] = tasks[t][i]
              \/ conns[c].loop = t /\ tasks'[t][i].conn = c
<1>1. /\ Ok /\ main = "shutdown" /\ c \in unclosed /\ unclosed' = unclosed \ {c}
      /\ UNCHANGED <<pool, reactors, thread, index, main, batch, cleared, connections, outcome>>
  BY DEF ShutdownCloses, poolVars, mainVars
<1>2. CASE conns[c].loop = Main
  <2>1. conns' = [conns EXCEPT ![c].state = "closed"] /\ UNCHANGED tasks
    BY <1>2 DEF ShutdownCloses
  <2>2. /\ conns' \in Seq(Conn) /\ Conns' = Conns /\ conns'[c].state = "closed"
        /\ conns'[c].loop = conns[c].loop
        /\ \A d \in Conns \ {c} : conns'[d] = conns[d]
    BY <2>1, StateSet DEF TypeOK
  <2> QED
    BY <1>1, <1>2, <2>1, <2>2 DEF TypeOK
<1>3. CASE conns[c].loop # Main
  <2> DEFINE l == conns[c].loop
             task == [op |-> "close", conn |-> c]
  <2>1. l \in Threads /\ c \in Nat /\ conns \in Seq(Conn)
    <3>1. conns[c] \in Conn /\ c \in Nat
      BY DEF Conns, TypeOK
    <3> QED
      BY <1>3, <3>1 DEF Conn, TypeOK
  <2>2. tasks' = [tasks EXCEPT ![l] = Append(tasks[l], task)] /\ UNCHANGED conns
    BY <1>3 DEF ShutdownCloses
  <2>3. task \in Task /\ task.conn = c /\ tasks[l] \in Seq(Task)
    BY <2>1 DEF Task, TypeOK
  <2>4. /\ Append(tasks[l], task) \in Seq(Task)
        /\ \A i \in DOMAIN Append(tasks[l], task) :
             \/ i \in DOMAIN tasks[l] /\ Append(tasks[l], task)[i] = tasks[l][i]
             \/ Append(tasks[l], task)[i] = task
    <3> HIDE DEF l, task
    <3> QED
      BY <2>3, Appended
  <2>5. l # Main /\ l = conns[c].loop
    BY <1>3
  <2> HIDE DEF l, task
  <2>6. tasks' \in [Threads -> Seq(Task)]
    BY <2>1, <2>2, <2>4 DEF TypeOK
  <2>7. \A t \in Threads : \A i \in DOMAIN tasks'[t] :
          \/ i \in DOMAIN tasks[t] /\ tasks'[t][i] = tasks[t][i]
          \/ l = t /\ tasks'[t][i].conn = c
    <3> SUFFICES ASSUME NEW t \in Threads, NEW i \in DOMAIN tasks'[t]
                 PROVE  \/ i \in DOMAIN tasks[t] /\ tasks'[t][i] = tasks[t][i]
                        \/ l = t /\ tasks'[t][i].conn = c
      OBVIOUS
    <3>1. CASE t = l
      <4>1. tasks'[t] = Append(tasks[l], task)
        BY <2>1, <2>2, <3>1 DEF TypeOK
      <4> QED
        BY <2>3, <2>4, <3>1, <4>1
    <3>2. CASE t # l
      <4>1. tasks'[t] = tasks[t]
        BY <2>1, <2>2, <3>2 DEF TypeOK
      <4> QED
        BY <4>1
    <3> QED
      BY <3>1, <3>2
  <2>8. Conns' = Conns
    BY <2>2 DEF Conns
  <2> QED
    BY <1>1, <2>1, <2>2, <2>5, <2>6, <2>7, <2>8
<1> QED
  BY <1>2, <1>3

\* A close on the main thread.
LEMMA ClosesOwn ==
  ASSUME TypeOK, NEW c \in Conns, Closes(c), conns[c].loop = Main
  PROVE  /\ Ok /\ main \in {"looping", "ending"} /\ conns[c].state = "up"
         /\ UNCHANGED <<pool, reactors, thread, index, main, batch, cleared, tasks, unclosed>>
         /\ connections' = connections \ {c} /\ outcome' \in {"ok", "freed"}
         /\ conns' \in Seq(Conn) /\ Conns' = Conns
         /\ conns'[c].state = "closed" /\ conns'[c].loop = Main
         /\ \A d \in Conns \ {c} : conns'[d] = conns[d]
<1>1. /\ Ok /\ main \in {"looping", "ending"} /\ conns[c].state = "up"
      /\ UNCHANGED <<pool, reactors, thread, index, main, batch, cleared, tasks, unclosed>>
  BY DEF Closes, Runs, poolVars, mainVars
<1>2. /\ connections' = connections \ {c} /\ outcome' \in {"ok", "freed"}
      /\ conns' = [conns EXCEPT ![c].state = "closed"]
  BY DEF Closes, RemoveConnection, Removed
<1>3. /\ conns' \in Seq(Conn) /\ Conns' = Conns
      /\ conns'[c].state = "closed" /\ conns'[c].loop = conns[c].loop
      /\ \A d \in Conns \ {c} : conns'[d] = conns[d]
  BY <1>2, StateSet DEF TypeOK
<1> QED
  BY <1>1, <1>2, <1>3

\* Steps that leave the connections and the main thread's phase alone.
LEMMA ConnectionsLeft ==
  ASSUME IInv, UNCHANGED <<pool, main, connVars>>, Ok' => Ok,
         Acceptor \in batch' => main # "ending" \/ Acceptor \in batch,
         thread' \in [Threads -> {"none", "created", "published", "looping", "returned"}],
         reactors' \in Seq(Threads), Len(reactors') >= Len(reactors),
         index' = index,
         pool = {} => UNCHANGED <<reactors, thread>>,
         main = "new" => UNCHANGED <<reactors, thread>>
  PROVE  IInv'
<1>1. Conns' = Conns /\ Open' = Open
  BY DEF connVars, Conns, Open
<1>2. index <= Len(reactors) + 1 => index <= Len(reactors') + 1
  BY DEF IInv, TypeOK
<1>3. TypeOK'
  BY <1>1, <1>2 DEF IInv, TypeOK, connVars
<1>4. WithoutPool' /\ BeforeStart'
  BY <1>1 DEF IInv, WithoutPool, BeforeStart, connVars
<1>5. Accepting' /\ Own' /\ Left'
  BY <1>1 DEF IInv, Accepting, Own, Left, connVars
<1> QED
  BY <1>3, <1>4, <1>5 DEF IInv

\* The inductive invariant holds in every state.
LEMMA IInvHolds == Spec => []IInv
<1> USE TcpServerAssumption
<1>1. Init => IInv
  BY DEF Init, IInv, TypeOK, WithoutPool, BeforeStart, Accepting, Own, Left, Conns
<1>2. IInv /\ [Next]_vars => IInv'
  <2> SUFFICES ASSUME IInv, [Next]_vars  PROVE IInv'
    OBVIOUS
  <2>0. TypeOK /\ WithoutPool /\ BeforeStart /\ Accepting /\ Own /\ Left
    BY DEF IInv
  <2>1. ASSUME NEW t \in Threads, Publish(t)  PROVE IInv'
    <3>1. /\ reactors' \in Seq(Threads) /\ Len(reactors') >= Len(reactors)
          /\ thread' \in [Threads -> {"none", "created", "published", "looping", "returned"}]
          /\ thread[t] = "created"
      BY <2>0, <2>1 DEF Publish, TypeOK
    <3>2. pool # {} /\ main # "new"
      BY <2>0, <3>1 DEF WithoutPool, BeforeStart
    <3> QED
      BY <2>1, <3>1, <3>2, ConnectionsLeft DEF Publish, mainVars, Ok
  <2>2. ASSUME NEW t \in Threads, StartLooper(t) \/ LeaveLoop(t)  PROVE IInv'
    <3>1. /\ thread[t] \in {"published", "looping"} /\ Ok
          /\ thread' \in {thread, [thread EXCEPT ![t] = "looping"],
                          [thread EXCEPT ![t] = "returned"]}
          /\ UNCHANGED <<pool, reactors, index, main, batch, connVars>>
      BY <2>2 DEF StartLooper, LeaveLoop, mainVars
    <3>2. thread' \in [Threads -> {"none", "created", "published", "looping", "returned"}]
      <4>1. thread \in [Threads -> {"none", "created", "published", "looping", "returned"}]
        BY <2>0 DEF TypeOK
      <4> QED
        BY <3>1, <4>1
    <3>3. pool # {} /\ main # "new"
      BY <2>0, <3>1 DEF WithoutPool, BeforeStart
    <3>4. reactors \in Seq(Threads) /\ Len(reactors) >= Len(reactors)
      BY <2>0 DEF TypeOK
    <3> QED
      BY <3>1, <3>2, <3>3, <3>4, ConnectionsLeft
  <2>3. ASSUME NEW t \in Threads, RunTask(t)  PROVE IInv'
    <3>0. PICK k : k = Head(tasks[t])
      OBVIOUS
    <3>1. /\ Ok /\ thread[t] = "looping" /\ 1 \in DOMAIN tasks[t] /\ k = tasks[t][1]
          /\ k \in Task /\ k.conn \in Conns /\ conns[k.conn].loop = t
      BY <2>0, <2>3, <3>0, RunTaskTakes
    <3>2. /\ tasks' \in [Threads -> Seq(Task)]
          /\ \A u \in Threads : \A i \in DOMAIN tasks'[u] :
               \E j \in DOMAIN tasks[u] : tasks'[u][i] = tasks[u][j]
      BY <2>0, <2>3, <3>0, RunTaskTakes
    <3>3. /\ conns' \in Seq(Conn) /\ Conns' = Conns
          /\ \A d \in Conns : conns'[d].loop = conns[d].loop
          /\ \A d \in Conns \ {k.conn} : conns'[d] = conns[d]
      BY <2>0, <2>3, <3>0, RunTaskTakes
    <3>4. \/ k.op = "set" /\ UNCHANGED conns
          \/ k.op = "connect" /\ conns'[k.conn].state = "up"
          \/ k.op = "close"
      BY <2>0, <2>3, <3>0, RunTaskTakes
    <3>5. UNCHANGED <<pool, reactors, thread, main, batch, index, connections, unclosed>>
      BY <2>3 DEF RunTask, poolVars, mainVars
    <3>6. pool # {} /\ main # "new" /\ t # Main
      BY <2>0, <3>1 DEF WithoutPool, BeforeStart, TcpServerAssumption
    <3>7. TypeOK'
      <4>1. ASSUME NEW u \in Threads, NEW i \in DOMAIN tasks'[u]
            PROVE  tasks'[u][i].conn \in Conns' /\ conns'[tasks'[u][i].conn].loop = u
        <5>1. PICK j \in DOMAIN tasks[u] : tasks'[u][i] = tasks[u][j]
          BY <3>2
        <5>2. tasks[u][j].conn \in Conns /\ conns[tasks[u][j].conn].loop = u
          BY <2>0 DEF TypeOK
        <5> QED
          BY <3>3, <5>1, <5>2
      <4> QED
        BY <2>0, <3>2, <3>3, <3>5, <4>1 DEF TypeOK
    <3>8. WithoutPool' /\ BeforeStart' /\ Left'
      BY <3>5, <3>6 DEF WithoutPool, BeforeStart, Left
    <3>9. Own'
      BY <2>0, <3>1, <3>3, <3>5, <3>6 DEF Own
    <3>10. Accepting'
      <4> SUFFICES ASSUME main = "looping"  PROVE Accepting'
        BY <3>5 DEF Accepting
      <4>1. k.op \in {"set", "connect"}
        BY <2>0, <3>1 DEF Accepting
      <4>2. k.conn \in connections /\ connections = Open
        BY <2>0, <3>1, <3>6 DEF Accepting
      <4>3. Open' = Open
        <5>1. CASE k.op = "set" /\ UNCHANGED conns
          BY <5>1 DEF Open, Conns
        <5>2. CASE k.op = "connect" /\ conns'[k.conn].state = "up"
          BY <3>3, <4>2, <5>2 DEF Open
        <5> QED
          BY <3>4, <4>1, <5>1, <5>2
      <4>4. ASSUME NEW u \in Threads, NEW i \in DOMAIN tasks'[u]
            PROVE  tasks'[u][i].op \in {"set", "connect"}
        BY <2>0, <3>1, <3>2 DEF Accepting
      <4>5. \A c \in Conns' : conns'[c].loop # Main => c \in connections'
        BY <2>0, <3>1, <3>3, <3>5 DEF Accepting
      <4> QED
        BY <3>5, <4>2, <4>3, <4>4, <4>5 DEF Accepting
    <3> QED
      BY <3>7, <3>8, <3>9, <3>10 DEF IInv
  <2>4. ASSUME UNCHANGED <<poolVars, main, connVars>>, Ok' => Ok,
               Acceptor \in batch' => main # "ending" \/ Acceptor \in batch
        PROVE  IInv'
    <3>1. Len(reactors) >= Len(reactors)
      BY <2>0 DEF TypeOK
    <3> QED
      BY <2>0, <2>4, <3>1, ConnectionsLeft DEF TypeOK, poolVars
  <2>5. CASE Arrive \/ Poll \/ AcceptFails \/ \E c \in Conns : Handle(c) \/ Meets(c)
    BY <2>4, <2>5 DEF Arrive, Poll, AcceptFails, Calls, Handle, Meets, mainVars, Ok
  <2>6. CASE Start
    <3>1. /\ Ok /\ main = "new" /\ main' = "looping"
          /\ UNCHANGED <<pool, reactors, index, batch, conns, connections, tasks, unclosed>>
          /\ thread' = [t \in Threads |-> IF t \in pool THEN "created" ELSE "none"]
      BY <2>6 DEF Start, connVars
    <3>2. connections = {} /\ conns = <<>> /\ Conns = {} /\ Conns' = {} /\ Open' = {}
      BY <2>0, <3>1 DEF BeforeStart, Conns, Open
    <3>3. \A t \in Threads : tasks[t] = <<>> /\ DOMAIN tasks[t] = {}
      BY <2>0, <3>1 DEF BeforeStart
    <3>4. TypeOK'
      BY <2>0, <3>1, <3>2, <3>3 DEF TypeOK
    <3> QED
      BY <2>0, <3>1, <3>2, <3>3, <3>4
         DEF IInv, WithoutPool, BeforeStart, Accepting, Own, Left
  <2>7. CASE Accept
    BY <2>7, AcceptKeeps
  <2>8. CASE Shutdown
    <3>1. /\ Ok /\ main \in {"looping", "ending"} /\ main' = "shutdown" /\ unclosed' = connections
          /\ UNCHANGED <<pool, reactors, thread, index, conns, connections, tasks, outcome>>
      BY <2>8 DEF Shutdown, poolVars
    <3>2. TypeOK' /\ Conns' = Conns /\ WithoutPool' /\ BeforeStart' /\ Accepting' /\ Left'
      BY <2>0, <3>1 DEF TypeOK, WithoutPool, BeforeStart, Accepting, Left, Conns
    <3>3. Own'
      BY <2>0, <3>1, <3>2 DEF Own
    <3> QED
      BY <3>2, <3>3 DEF IInv
  <2>9. CASE ShutdownClears
    <3>1. /\ Ok /\ main = "shutdown" /\ main' = "ending" /\ unclosed = {} /\ connections' = {}
          /\ UNCHANGED <<pool, reactors, thread, index, conns, tasks, batch>>
      BY <2>9 DEF ShutdownClears, poolVars
    <3>2. TypeOK' /\ Conns' = Conns /\ WithoutPool' /\ BeforeStart' /\ Accepting'
      BY <2>0, <3>1 DEF TypeOK, WithoutPool, BeforeStart, Accepting, Conns
    <3>3. \A c \in Conns : conns[c].loop = Main => conns[c].state = "closed"
      BY <2>0, <3>1 DEF Own
    <3>4. Own'
      BY <3>1, <3>2, <3>3 DEF Own
    <3>5. pool = {} => Open' = {}
      BY <2>0, <3>1, <3>2, <3>3 DEF WithoutPool, Open
    <3> QED
      BY <3>1, <3>2, <3>4, <3>5 DEF IInv, Left
  <2>10. CASE Destroy
    <3>1. /\ Ok /\ main = "ending" /\ main' = "stopping" /\ connections' = {}
          /\ UNCHANGED <<pool, reactors, thread, index, conns, tasks, batch>>
      BY <2>10 DEF Destroy, poolVars
    <3>2. /\ TypeOK' /\ Conns' = Conns /\ Open' = Open
      BY <2>0, <3>1 DEF TypeOK, Conns, Open
    <3>3. WithoutPool' /\ BeforeStart' /\ Accepting' /\ Own'
      BY <2>0, <3>1, <3>2 DEF WithoutPool, BeforeStart, Accepting, Own
    <3>4. Left'
      BY <2>0, <3>1, <3>2 DEF Left
    <3> QED
      BY <3>2, <3>3, <3>4 DEF IInv
  <2>11. CASE StopNext
    BY <2>4, <2>11, <2>0 DEF StopNext, stopRest, TypeOK, WithoutPool, BeforeStart, Accepting, Own,
       Left, IInv, Conns, Open, connVars, Ok
  <2>12. CASE Join
    <3>1. /\ Ok /\ main = "stopping" /\ main' = "done" /\ reactors' = <<>>
          /\ UNCHANGED <<pool, thread, index, batch, conns, connections, tasks, unclosed>>
      BY <2>12 DEF Join, connVars
    <3>2. TypeOK' /\ Conns' = Conns /\ Open' = Open
      BY <2>0, <3>1 DEF TypeOK, Conns, Open
    <3> QED
      BY <2>0, <3>1, <3>2 DEF IInv, WithoutPool, BeforeStart, Accepting, Own, Left
  <2>13. ASSUME NEW c \in Conns, ShutdownCloses(c)  PROVE IInv'
    <3>1. /\ Ok /\ main = "shutdown" /\ unclosed' = unclosed \ {c}
          /\ UNCHANGED <<pool, reactors, thread, index, main, connections, outcome>>
      BY <2>0, <2>13, ClosesOne
    <3>2. /\ conns' \in Seq(Conn) /\ Conns' = Conns
          /\ \A d \in Conns : conns'[d].loop = conns[d].loop
          /\ \A d \in Conns \ {c} : conns'[d] = conns[d]
          /\ conns[c].loop = Main => conns'[c].state = "closed"
      BY <2>0, <2>13, ClosesOne
    <3>3. /\ tasks' \in [Threads -> Seq(Task)]
          /\ \A t \in Threads : \A i \in DOMAIN tasks'[t] :
               \/ i \in DOMAIN tasks[t] /\ tasks'[t][i] = tasks[t][i]
               \/ conns[c].loop = t /\ tasks'[t][i].conn = c
      BY <2>0, <2>13, ClosesOne
    <3>4. TypeOK'
      <4>1. ASSUME NEW t \in Threads, NEW i \in DOMAIN tasks'[t]
            PROVE  tasks'[t][i].conn \in Conns' /\ conns'[tasks'[t][i].conn].loop = t
        <5>1. CASE i \in DOMAIN tasks[t] /\ tasks'[t][i] = tasks[t][i]
          <6>1. tasks[t][i].conn \in Conns /\ conns[tasks[t][i].conn].loop = t
            BY <2>0, <5>1 DEF TypeOK
          <6> QED
            BY <3>2, <5>1, <6>1
        <5>2. CASE conns[c].loop = t /\ tasks'[t][i].conn = c
          BY <3>2, <5>2
        <5> QED
          BY <3>3, <5>1, <5>2
      <4> QED
        BY <2>0, <3>1, <3>2, <3>3, <4>1 DEF TypeOK
    <3>5. WithoutPool' /\ BeforeStart' /\ Accepting' /\ Left'
      BY <2>0, <3>1, <3>2 DEF WithoutPool, BeforeStart, Accepting, Left
    <3>6. Own'
      BY <2>0, <3>1, <3>2 DEF Own
    <3> QED
      BY <3>4, <3>5, <3>6 DEF IInv
  <2>14. ASSUME NEW c \in Conns, Closes(c), conns[c].loop = Main  PROVE IInv'
    <3>1. /\ Ok /\ main \in {"looping", "ending"} /\ conns[c].state = "up"
          /\ UNCHANGED <<pool, reactors, thread, index, main, batch, cleared, tasks, unclosed>>
          /\ connections' = connections \ {c}
      BY <2>0, <2>14, ClosesOwn
    <3>2. /\ conns' \in Seq(Conn) /\ Conns' = Conns
          /\ conns'[c].state = "closed" /\ conns'[c].loop = Main
          /\ \A d \in Conns \ {c} : conns'[d] = conns[d]
      BY <2>0, <2>14, ClosesOwn
    <3>3. Open' = Open \ {c}
      BY <3>2 DEF Open
    <3>4. \A d \in Conns : conns'[d].loop = conns[d].loop
      BY <2>14, <3>2
    <3>5. TypeOK'
      <4>1. \A t \in Threads : \A i \in DOMAIN tasks[t] :
              tasks[t][i].conn \in Conns /\ conns[tasks[t][i].conn].loop = t
        BY <2>0 DEF TypeOK
      <4>2. \A t \in Threads : \A i \in DOMAIN tasks'[t] :
              tasks'[t][i].conn \in Conns' /\ conns'[tasks'[t][i].conn].loop = t
        BY <3>1, <3>2, <3>4, <4>1
      <4>3. connections' \subseteq Conns'
        BY <2>0, <3>1, <3>2 DEF TypeOK
      <4> QED
        BY <2>0, <3>1, <3>2, <4>2, <4>3 DEF TypeOK
    <3>6. WithoutPool' /\ BeforeStart'
      BY <2>0, <3>1, <3>2, <3>4 DEF WithoutPool, BeforeStart
    <3>7. Accepting'
      BY <2>0, <2>14, <3>1, <3>2, <3>3, <3>4 DEF Accepting
    <3>8. Own'
      BY <2>0, <3>1, <3>2 DEF Own
    <3>9. Left'
      BY <2>0, <3>1, <3>3 DEF Left
    <3> QED
      BY <3>5, <3>6, <3>7, <3>8, <3>9 DEF IInv
  <2>15. ASSUME NEW c \in Conns, Closes(c), conns[c].loop # Main  PROVE IInv'
    BY <2>4, <2>15 DEF Closes, mainVars, connVars, Ok
  <2>16. CASE UNCHANGED vars
    BY <2>4, <2>16 DEF vars, mainVars, Ok
  <2> QED
    BY <2>1, <2>2, <2>3, <2>5, <2>6, <2>7, <2>8, <2>9, <2>10, <2>11, <2>12, <2>13,
       <2>14, <2>15, <2>16 DEF Next
<1> QED
  BY <1>1, <1>2, PTL DEF Spec

\* While the server accepts, connections_ holds exactly the connections that
\* are open or about to be.  A server without a pool has at most one open after
\* shutdown(), which the Acceptor's Event took later in the iteration that
\* shutdown() ended (onConnection, removeConnection, shutdown, onAccept).
THEOREM MapIsExact == Spec => []MapHoldsOpenConnections
<1> IInv => MapHoldsOpenConnections
  BY DEF IInv, Accepting, Left, MapHoldsOpenConnections
<1> QED
  BY IInvHolds, PTL
-----------------------------------------------------------------------------
\* What the ends depend on: reactors_ holds threads of the pool, no thread
\* runs after Join, the main Looper calls connections of its own, and until
\* shutdown() clears the map it holds every connection that is up or that a
\* closure is about.
Held ==
  /\ \A t \in Threads : thread[t] # "none" => t \in pool
  /\ reactors \in Seq(pool)
  /\ \A t \in Threads : thread[t] = "published" /\ main # "done" => reactors # <<>>
  /\ main = "done" => \A t \in pool : thread[t] = "returned"
  /\ \A c \in batch : c # Acceptor => c \in Conns /\ conns[c].loop = Main
  /\ cleared \in BOOLEAN
  /\ main \in {"new", "looping"} => ~cleared
  /\ Ok /\ ~cleared =>
       /\ main \in {"new", "looping", "shutdown"}
       /\ \A c \in Conns : conns[c].state = "up" => c \in connections
       /\ \A t \in Threads : \A i \in DOMAIN tasks[t] : tasks[t][i].conn \in connections
       /\ main = "shutdown" => unclosed \subseteq connections

\* Steps of the pool's threads and of the batch.
LEMMA HeldLeft ==
  ASSUME Held, UNCHANGED <<pool, main, cleared, connVars>>, Ok' => Ok,
         \A t \in Threads : thread'[t] # "none" => t \in pool,
         reactors' \in Seq(pool),
         \A t \in Threads : thread'[t] = "published" /\ main # "done" => reactors' # <<>>,
         main = "done" => \A t \in pool : thread'[t] = "returned",
         \A c \in batch' : c # Acceptor => c \in Conns /\ conns[c].loop = Main
  PROVE  Held'
<1>1. Conns' = Conns
  BY DEF connVars, Conns
<1> QED
  BY <1>1 DEF Held, connVars

\* Held is inductive.
LEMMA HeldHolds == Spec => []Held
<1> USE TcpServerAssumption
<1>1. Init => Held
  <2> SUFFICES ASSUME Init  PROVE Held
    OBVIOUS
  <2>1. /\ reactors = <<>> /\ main = "new" /\ batch = {} /\ conns = <<>>
        /\ \A t \in Threads : thread[t] = "none" /\ tasks[t] = <<>>
    BY DEF Init
  <2>2. cleared = FALSE
    BY DEF Init
  <2>3. Conns = {} /\ reactors \in Seq(pool) /\ \A t \in Threads : DOMAIN tasks[t] = {}
    BY <2>1 DEF Conns
  <2> QED
    BY <2>1, <2>2, <2>3 DEF Held
<1>2. IInv /\ Held /\ [Next]_vars => Held'
  <2> SUFFICES ASSUME IInv, Held, [Next]_vars  PROVE Held'
    OBVIOUS
  <2>0. TypeOK
    BY DEF IInv
  <2>1. ASSUME NEW t \in Threads, Publish(t)  PROVE Held'
    <3>1. t \in pool /\ thread[t] = "created" /\ main # "done"
      BY <2>1 DEF Publish, Held
    <3>2. Append(reactors, t) \in Seq(pool) /\ Append(reactors, t) # <<>>
      BY <3>1 DEF Held
    <3>3. /\ reactors' = Append(reactors, t) /\ thread' = [thread EXCEPT ![t] = "published"]
          /\ UNCHANGED <<pool, main, cleared, batch, connVars, outcome>>
      BY <2>1 DEF Publish, mainVars
    <3>4. \A u \in Threads : thread'[u] # "none" => u \in pool
      BY <2>0, <3>1, <3>3 DEF Held, TypeOK
    <3> QED
      BY <3>1, <3>2, <3>3, <3>4, HeldLeft DEF Held, Ok
  <2>2. ASSUME NEW t \in Threads, StartLooper(t) \/ LeaveLoop(t)  PROVE Held'
    <3>1. /\ thread[t] \in {"published", "looping"} /\ Ok
          /\ thread' \in {thread, [thread EXCEPT ![t] = "looping"],
                          [thread EXCEPT ![t] = "returned"]}
          /\ UNCHANGED <<pool, reactors, main, cleared, batch, connVars>>
      BY <2>2 DEF StartLooper, LeaveLoop, mainVars
    <3>2. /\ t \in pool /\ main # "done"
      BY <3>1 DEF Held
    <3>3. \A u \in Threads : /\ thread'[u] # "none" => u \in pool
                             /\ thread'[u] = "published" => thread[u] = "published"
      BY <2>0, <3>1, <3>2 DEF Held, TypeOK
    <3> QED
      BY <3>1, <3>2, <3>3, HeldLeft DEF Held
  <2>3. ASSUME NEW t \in Threads, RunTask(t)  PROVE Held'
    <3>0. PICK k : k = Head(tasks[t])
      OBVIOUS
    <3>1. /\ Ok /\ 1 \in DOMAIN tasks[t] /\ k = tasks[t][1] /\ k.conn \in Conns
          /\ \A u \in Threads : \A i \in DOMAIN tasks'[u] :
               \E j \in DOMAIN tasks[u] : tasks'[u][i] = tasks[u][j]
      BY <2>0, <2>3, <3>0, RunTaskTakes
    <3>2. /\ Conns' = Conns /\ \A d \in Conns : conns'[d].loop = conns[d].loop
          /\ \A d \in Conns \ {k.conn} : conns'[d] = conns[d]
      BY <2>0, <2>3, <3>0, RunTaskTakes
    <3>3. UNCHANGED <<pool, reactors, thread, main, batch, cleared, connections, unclosed>>
      BY <2>3 DEF RunTask, poolVars, mainVars
    <3>4. ~cleared => k.conn \in connections
      BY <3>1 DEF Held
    <3>5. ~cleared => \A c \in Conns' : conns'[c].state = "up" => c \in connections
      BY <3>1, <3>2, <3>4 DEF Held
    <3>6. ~cleared => \A u \in Threads : \A i \in DOMAIN tasks'[u] :
                        tasks'[u][i].conn \in connections
      BY <3>1 DEF Held
    <3>7. \A c \in batch : c # Acceptor => c \in Conns' /\ conns'[c].loop = Main
      BY <3>2 DEF Held
    <3> QED
      BY <3>1, <3>3, <3>5, <3>6, <3>7 DEF Held
  <2>4. ASSUME UNCHANGED <<poolVars, main, cleared, connVars>>, Ok' => Ok,
               \A c \in batch' : c # Acceptor => c \in Conns /\ conns[c].loop = Main
        PROVE  Held'
    BY <2>4, HeldLeft DEF Held, poolVars
  <2>5. CASE Arrive \/ AcceptFails \/ \E c \in Conns : Handle(c) \/ Meets(c)
    <3>1. /\ UNCHANGED <<poolVars, main, cleared, connVars>> /\ Ok /\ batch' \subseteq batch
      BY <2>5 DEF Arrive, AcceptFails, Calls, Handle, Meets, mainVars
    <3>2. \A c \in batch' : c # Acceptor => c \in Conns /\ conns[c].loop = Main
      BY <3>1 DEF Held
    <3> QED
      BY <2>4, <3>1, <3>2
  <2>6. CASE Poll
    <3>1. PICK active \in SUBSET {c \in Conns : conns[c] = [loop |-> Main, state |-> "up"]} :
            batch' = active \cup IF listening /\ backlog > 0 THEN {Acceptor} ELSE {}
      BY <2>6 DEF Poll
    <3>2. \A c \in batch' : c # Acceptor => c \in Conns /\ conns[c].loop = Main
      BY <3>1
    <3> QED
      BY <2>4, <2>6, <3>2 DEF Poll, Ok
  <2>7. CASE Start
    <3>1. /\ Ok /\ main = "new" /\ main' = "looping"
          /\ UNCHANGED <<pool, reactors, batch, cleared, connVars, outcome>>
          /\ \A t \in Threads : thread'[t] \in {"none", "created"} /\ (thread'[t] # "none" => t \in pool)
      BY <2>7 DEF Start
    <3>2. Conns' = Conns
      BY <3>1 DEF connVars, Conns
    <3> QED
      BY <3>1, <3>2 DEF Held, connVars
  <2>8. CASE Accept
    <3>0. PICK l \in Threads \cup {Main} : NewConnection(l)
      BY <2>8, Chosen
    <3>0a. PICK c, r : /\ c = Len(conns) + 1
                       /\ r = [loop |-> l, state |-> IF l = Main THEN "up" ELSE "queued"]
      OBVIOUS
    <3>1. /\ Ok /\ main \in {"looping", "ending"} /\ batch' = batch \ {Acceptor}
          /\ UNCHANGED <<pool, reactors, thread, main, cleared, unclosed, outcome>>
      BY <2>8 DEF Accept, Calls
    <3>2. /\ Conns' = Conns \cup {c} /\ c \notin Conns
          /\ \A d \in Conns : conns'[d] = conns[d]
          /\ connections' = connections \cup {c}
      BY <2>0, <3>0, <3>0a, NewConnectionAdds
    <3>3. \A t \in Threads : \A i \in DOMAIN tasks'[t] :
            \/ i \in DOMAIN tasks[t] /\ tasks'[t][i] = tasks[t][i]
            \/ tasks'[t][i].conn = c
      BY <2>0, <3>0, <3>0a, NewConnectionAdds
    <3>4. \A d \in batch' : d # Acceptor => d \in Conns' /\ conns'[d].loop = Main
      BY <3>1, <3>2 DEF Held
    <3>5. ~cleared => /\ \A d \in Conns' : conns'[d].state = "up" => d \in connections'
                      /\ \A t \in Threads : \A i \in DOMAIN tasks'[t] :
                           tasks'[t][i].conn \in connections'
      BY <3>1, <3>2, <3>3 DEF Held
    <3> QED
      BY <3>1, <3>4, <3>5 DEF Held, Ok
  <2>9. CASE Shutdown
    <3>1. /\ Ok /\ main \in {"looping", "ending"} /\ main' = "shutdown" /\ unclosed' = connections
          /\ UNCHANGED <<pool, reactors, thread, batch, cleared, conns, connections, tasks, outcome>>
      BY <2>9 DEF Shutdown, poolVars
    <3> QED
      BY <3>1 DEF Held, Conns, Ok
  <2>10. CASE ShutdownClears \/ Destroy
    <3>1. /\ Ok /\ main' \in {"ending", "stopping"} /\ main \in {"shutdown", "ending"} /\ cleared'
          /\ UNCHANGED <<pool, reactors, thread, batch, conns, tasks, unclosed>>
          /\ cleared' \in BOOLEAN
      BY <2>10 DEF ShutdownClears, Destroy, poolVars, Held
    <3> QED
      BY <3>1 DEF Held, Conns
  <2>11. CASE StopNext
    BY <2>11 DEF StopNext, stopRest, connVars, Held, Conns, Ok
  <2>12. CASE Join
    <3>1. /\ Ok /\ main = "stopping" /\ main' = "done" /\ reactors' = <<>>
          /\ \A t \in pool : thread[t] = "returned"
          /\ UNCHANGED <<pool, thread, batch, cleared, conns, connections, tasks, unclosed>>
      BY <2>12 DEF Join, connVars
    <3> QED
      BY <3>1 DEF Held, Conns
  <2>13. ASSUME NEW c \in Conns, ShutdownCloses(c)  PROVE Held'
    <3>1. /\ Ok /\ main = "shutdown" /\ c \in unclosed /\ unclosed' = unclosed \ {c}
          /\ UNCHANGED <<pool, reactors, thread, main, batch, cleared, connections, outcome>>
      BY <2>0, <2>13, ClosesOne
    <3>2. /\ Conns' = Conns /\ \A d \in Conns : conns'[d].loop = conns[d].loop
          /\ \A d \in Conns \ {c} : conns'[d] = conns[d]
      BY <2>0, <2>13, ClosesOne
    <3>3. \A t \in Threads : \A i \in DOMAIN tasks'[t] :
            \/ i \in DOMAIN tasks[t] /\ tasks'[t][i] = tasks[t][i]
            \/ tasks'[t][i].conn = c
      BY <2>0, <2>13, ClosesOne
    <3>4. ~cleared => c \in connections /\ unclosed \subseteq connections
      BY <3>1 DEF Held
    <3>5. ~cleared => \A d \in Conns' : conns'[d].state = "up" => d \in connections
      BY <3>1, <3>2, <3>4 DEF Held
    <3>6. ~cleared => \A t \in Threads : \A i \in DOMAIN tasks'[t] :
                        tasks'[t][i].conn \in connections
      BY <3>1, <3>3, <3>4 DEF Held
    <3>7. \A d \in batch : d # Acceptor => d \in Conns' /\ conns'[d].loop = Main
      BY <3>2 DEF Held
    <3> QED
      BY <3>1, <3>4, <3>5, <3>6, <3>7 DEF Held, Ok
  <2>14. ASSUME NEW c \in Conns, Closes(c), conns[c].loop = Main  PROVE Held'
    <3>1. /\ Ok /\ UNCHANGED <<pool, reactors, thread, main, batch, cleared, tasks, unclosed>>
          /\ main \in {"looping", "ending"} /\ connections' = connections \ {c}
      BY <2>0, <2>14, ClosesOwn
    <3>2. /\ Conns' = Conns /\ conns'[c].state = "closed" /\ conns'[c].loop = Main
          /\ \A d \in Conns \ {c} : conns'[d] = conns[d]
      BY <2>0, <2>14, ClosesOwn
    <3>3. \A t \in Threads : \A i \in DOMAIN tasks[t] : tasks[t][i].conn # c
      BY <2>0, <2>14 DEF TypeOK
    <3>4. ~cleared => /\ \A d \in Conns' : conns'[d].state = "up" => d \in connections'
                      /\ \A t \in Threads : \A i \in DOMAIN tasks'[t] :
                           tasks'[t][i].conn \in connections'
      BY <3>1, <3>2, <3>3 DEF Held
    <3>5. \A d \in batch : d # Acceptor => d \in Conns' /\ conns'[d].loop = Main
      BY <2>14, <3>2 DEF Held
    <3> QED
      BY <3>1, <3>4, <3>5 DEF Held
  <2>15. ASSUME NEW c \in Conns, Closes(c), conns[c].loop # Main  PROVE Held'
    <3>1. UNCHANGED <<poolVars, main, cleared, batch, connVars>> /\ Ok
      BY <2>15 DEF Closes, mainVars, connVars
    <3> QED
      BY <2>4, <3>1 DEF Held
  <2>16. CASE UNCHANGED vars
    BY <2>4, <2>16 DEF vars, mainVars, Held, Ok
  <2> QED
    BY <2>1, <2>2, <2>3, <2>5, <2>6, <2>7, <2>8, <2>9, <2>10, <2>11, <2>12, <2>13,
       <2>14, <2>15, <2>16 DEF Next
<1> QED
  BY <1>1, <1>2, IInvHolds, PTL DEF Spec

\* Two threads make a pool of more than one.
LEMMA TwoThreads ==
  ASSUME IInv, NEW t \in pool, NEW u \in pool, t # u
  PROVE  Cardinality(pool) > 1
<1>1. IsFiniteSet(pool) /\ {t} \cup {u} \subseteq pool
  BY FS_Subset, TcpServerAssumption DEF IInv, TypeOK
<1>2. IsFiniteSet({t}) /\ Cardinality({t}) = 1
  BY FS_Singleton
<1>3. Cardinality({t} \cup {u}) = Cardinality({t}) + 1
  <2>1. u \notin {t}
    OBVIOUS
  <2> QED
    BY <1>2, <2>1, FS_AddElement
<1>4. Cardinality({t} \cup {u}) <= Cardinality(pool) /\ Cardinality(pool) \in Nat
  BY <1>1, FS_Subset, FS_CardinalityType
<1> DEFINE m == Cardinality({t} \cup {u})
           k == Cardinality(pool)
           n == Cardinality({t})
<1>5. m = n + 1 /\ n = 1 /\ m <= k /\ k \in Nat
  BY <1>2, <1>3, <1>4
<1> HIDE DEF m, k, n
<1>6. k > 1
  BY <1>5
<1> QED
  BY <1>6 DEF k

\* What ends the program: an assertion only with a pool, a setter's closure
\* only with a connection of the pool, a use of a destroyed connection on the
\* main thread only once one of its connections was closed, and a poller or a
\* reference into the map only after shutdown() has cleared the map under the
\* closures of a pool (ReactorThreadPoll::start, removeConnection, shutdown).
THEOREM EndsAreExplained == Spec => []EndsExplained
<1> USE TcpServerAssumption
<1>1. Init => EndsExplained
  BY DEF Init, EndsExplained
<1>2. IInv /\ Held /\ EndsExplained /\ [Next]_vars => EndsExplained'
  <2> SUFFICES ASSUME IInv, Held, EndsExplained, [Next]_vars  PROVE EndsExplained'
    OBVIOUS
  <2>0. TypeOK /\ \A c \in Conns : conns[c] \in Conn
    BY DEF IInv, TypeOK, Conns
  <2>1. CASE Ok'
    BY <2>1 DEF Ok, EndsExplained
  <2>2. CASE UNCHANGED vars
    BY <2>2 DEF vars, poolVars, mainVars, connVars, EndsExplained, Conns
  <2>3. ASSUME NEW t \in Threads, StartLooper(t), ~Ok'  PROVE EndsExplained'
    <3>1. /\ thread[t] = "published" /\ Last(reactors) # t /\ outcome' = "aborted"
          /\ UNCHANGED pool
      BY <2>3 DEF StartLooper, Ok
    <3>2. t \in pool /\ main # "done" /\ reactors # <<>> /\ reactors \in Seq(pool)
      BY <3>1 DEF Held
    <3>3. Last(reactors) \in pool
      BY <3>2 DEF Last
    <3>4. Cardinality(pool) > 1
      BY <3>1, <3>2, <3>3, TwoThreads
    <3> QED
      BY <3>1, <3>4 DEF EndsExplained
  <2>4. ASSUME NEW t \in Threads, RunTask(t), ~Ok'  PROVE EndsExplained'
    <3>0. PICK k : k = Head(tasks[t])
      OBVIOUS
    <3>1. /\ thread[t] = "looping" /\ 1 \in DOMAIN tasks[t] /\ k = tasks[t][1]
          /\ k.conn \in Conns /\ conns[k.conn].loop = t /\ Conns' = Conns
          /\ \A d \in Conns : conns'[d].loop = conns[d].loop
          /\ Ok
      BY <2>0, <2>4, <3>0, RunTaskTakes
    <3>2. \/ outcome' = "dangling"
          \/ k.conn \notin connections /\ outcome' = "entry"
      <4>1. \/ outcome' \in {"ok", "dangling"}
            \/ UNCHANGED outcome
            \/ k.conn \notin connections /\ outcome' = "entry"
        BY <2>0, <2>4, <3>0, RunTaskTakes
      <4> QED
        BY <2>4, <3>1, <4>1 DEF Ok
    <3>3. t \in pool /\ UNCHANGED <<pool, cleared>>
      BY <2>4, <3>1 DEF Held, RunTask, poolVars, mainVars
    <3>4. CASE outcome' = "dangling"
      <4>1. k.conn \in Conns' /\ conns'[k.conn].loop # Main
        BY <3>1
      <4> QED
        BY <3>4, <4>1 DEF EndsExplained
    <3>5. CASE k.conn \notin connections /\ outcome' = "entry"
      <4>1. cleared
        BY <3>1, <3>5 DEF Held
      <4> QED
        BY <3>3, <3>5, <4>1 DEF EndsExplained
    <3> QED
      BY <3>2, <3>4, <3>5
  <2>5. ASSUME NEW c \in Conns, Handle(c), ~Ok'  PROVE EndsExplained'
    <3>1. /\ Ok /\ main \in {"looping", "ending"} /\ c \in batch /\ ~Alive(c)
          /\ outcome' = "stale" /\ UNCHANGED conns
      BY <2>5 DEF Handle, Calls, connVars, Ok
    <3>2. c # Acceptor /\ c \notin connections
      BY <2>0, <3>1 DEF Alive, Acceptor, TypeOK, Conns
    <3>3. conns[c].loop = Main /\ conns[c].state = "closed"
      BY <3>1, <3>2 DEF Held, IInv, Own
    <3>4. conns'[c] = [loop |-> Main, state |-> "closed"] /\ c \in Conns'
      BY <2>0, <3>1, <3>3 DEF Conn, Conns
    <3> QED
      BY <3>1, <3>4 DEF EndsExplained
  <2>6. ASSUME ShutdownClears, ~Ok'  PROVE EndsExplained'
    <3>1. /\ Ok /\ main = "shutdown" /\ unclosed = {} /\ outcome' = "freed" /\ UNCHANGED conns
      BY <2>6 DEF ShutdownClears, Ok
    <3>2. PICK c \in connections : conns[c].loop = Main
      BY <2>6, <3>1 DEF ShutdownClears, Ok
    <3>3. c \in Conns /\ conns[c].state = "closed"
      BY <2>0, <3>1, <3>2 DEF IInv, TypeOK, Own
    <3>4. conns'[c] = [loop |-> Main, state |-> "closed"] /\ c \in Conns'
      BY <2>0, <3>1, <3>2, <3>3 DEF Conn, Conns
    <3> QED
      BY <3>1, <3>4 DEF EndsExplained
  <2>7. ASSUME NEW c \in Conns, Closes(c), ~Ok'  PROVE EndsExplained'
    <3>1. CASE conns[c].loop = Main
      <4>1. /\ outcome' \in {"ok", "freed"} /\ conns' \in Seq(Conn) /\ Conns' = Conns
            /\ conns'[c].state = "closed" /\ conns'[c].loop = Main
        BY <2>0, <2>7, <3>1, ClosesOwn
      <4>2. conns'[c] \in Conn
        BY <4>1 DEF Conns
      <4>3. conns'[c] = [loop |-> Main, state |-> "closed"]
        BY <4>1, <4>2 DEF Conn
      <4> QED
        BY <2>7, <4>1, <4>3 DEF EndsExplained, Ok
    <3>2. CASE conns[c].loop # Main
      <4>1. outcome' = "aborted" /\ UNCHANGED conns
        BY <2>7, <3>2 DEF Closes
      <4> QED
        BY <3>2, <4>1 DEF EndsExplained, Conns
    <3> QED
      BY <3>1, <3>2
  <2>8. ASSUME NEW c \in Conns, Meets(c)  PROVE EndsExplained'
    <3>1. /\ Ok /\ conns[c].state = "up" /\ Polls(conns[c].loop) /\ c \notin connections
          /\ outcome' = "polled" /\ UNCHANGED <<pool, cleared>>
      BY <2>8 DEF Meets, Alive, poolVars, mainVars
    <3>2. cleared
      BY <3>1 DEF Held
    <3>3. conns[c].loop # Main
      <4>1. main # "looping"
        BY <3>2 DEF Held
      <4> QED
        BY <3>1, <4>1 DEF Polls
    <3>4. conns[c].loop \in Threads /\ thread[conns[c].loop] = "looping"
      BY <2>0, <3>1, <3>3 DEF Conn, Polls
    <3>5. conns[c].loop \in pool
      BY <3>4 DEF Held
    <3> QED
      BY <3>1, <3>2, <3>5 DEF EndsExplained
  <2>9. ASSUME NEW t \in Threads, Publish(t) \/ LeaveLoop(t)  PROVE Ok'
    BY <2>9 DEF Publish, LeaveLoop, Ok
  <2>10. Arrive \/ Start \/ Poll \/ AcceptFails \/ Accept => Ok'
    BY DEF Arrive, Start, Poll, AcceptFails, Accept, Calls, Ok
  <2>11. Shutdown \/ Destroy \/ StopNext \/ Join => Ok'
    BY DEF Shutdown, Destroy, StopNext, Join, Ok
  <2>12. ASSUME NEW c \in Conns, ShutdownCloses(c)  PROVE Ok'
    BY <2>12 DEF ShutdownCloses, Ok
  <2> QED
    BY <2>1, <2>2, <2>3, <2>4, <2>5, <2>6, <2>7, <2>8, <2>9, <2>10, <2>11, <2>12 DEF Next
<1> QED
  BY <1>1, <1>2, IInvHolds, HeldHolds, PTL DEF Spec
-----------------------------------------------------------------------------
(* What the return of the destructor rests on.                             *)

\* A thread that made its Looper has published it.
Published ==
  /\ stopped \in [Threads -> BOOLEAN] /\ stopIndex \in Nat \ {0}
  /\ main # "done" =>
       \A t \in Threads : thread[t] \in {"published", "looping", "returned"} =>
         \E i \in DOMAIN reactors : reactors[i] = t

\* Published is inductive.
LEMMA PublishedHolds == Spec => []Published
<1>1. Init => Published
  BY DEF Init, Published
<1>2. IInv /\ Published /\ [Next]_vars => Published'
  <2> SUFFICES ASSUME IInv, Published, [Next]_vars  PROVE Published'
    OBVIOUS
  <2>0. TypeOK
    BY DEF IInv
  <2>1. ASSUME NEW t \in Threads, Publish(t)  PROVE Published'
    <3>1. /\ DOMAIN reactors' = DOMAIN reactors \cup {Len(reactors) + 1}
          /\ reactors'[Len(reactors) + 1] = t
          /\ \A i \in DOMAIN reactors : reactors'[i] = reactors[i]
      BY <2>0, <2>1, Appended DEF Publish, TypeOK
    <3>2. /\ thread' = [thread EXCEPT ![t] = "published"] /\ UNCHANGED <<stopped, stopIndex, main>>
          /\ thread \in [Threads -> {"none", "created", "published", "looping", "returned"}]
      BY <2>0, <2>1 DEF Publish, TypeOK, mainVars
    <3>3. ASSUME main # "done", NEW u \in Threads,
                 thread'[u] \in {"published", "looping", "returned"}
          PROVE  \E i \in DOMAIN reactors' : reactors'[i] = u
      <4>1. CASE u = t
        BY <3>1, <4>1
      <4>2. CASE u # t
        <5>1. thread[u] \in {"published", "looping", "returned"}
          BY <3>2, <3>3, <4>2
        <5>2. PICK i \in DOMAIN reactors : reactors[i] = u
          BY <3>3, <5>1 DEF Published
        <5> QED
          BY <3>1, <5>2
      <4> QED
        BY <4>1, <4>2
    <3> QED
      BY <3>2, <3>3 DEF Published
  <2>2. ASSUME NEW t \in Threads, thread[t] \in {"published", "looping"},
               \/ thread' = thread
               \/ thread' = [thread EXCEPT ![t] = "looping"]
               \/ thread' = [thread EXCEPT ![t] = "returned"],
               stopped' \in [Threads -> BOOLEAN], UNCHANGED <<stopIndex, main, reactors>>
        PROVE  Published'
    <3>1. thread \in [Threads -> {"none", "created", "published", "looping", "returned"}]
      BY <2>0 DEF TypeOK
    <3>2. \A u \in Threads : thread'[u] \in {"published", "looping", "returned"} =>
            thread[u] \in {"published", "looping", "returned"}
      BY <2>2, <3>1
    <3> QED
      BY <2>2, <3>2 DEF Published
  <2>3. ASSUME NEW t \in Threads, StartLooper(t)  PROVE Published'
    BY <2>2, <2>3 DEF StartLooper, Published, mainVars
  <2>4. ASSUME NEW t \in Threads, LeaveLoop(t)  PROVE Published'
    BY <2>2, <2>4 DEF LeaveLoop, Published, mainVars
  <2>5. CASE StopNext
    <3>1. stopIndex' = stopIndex + 1 /\ UNCHANGED <<main, thread, reactors>>
      BY <2>5 DEF StopNext, stopRest
    <3>2. stopped' \in [Threads -> BOOLEAN]
      BY <2>5 DEF StopNext, Published
    <3> QED
      BY <3>1, <3>2 DEF Published
  <2>6. CASE Join
    BY <2>6 DEF Join, Published
  <2>7. CASE Start
    <3>1. \A t \in Threads : thread'[t] \notin {"published", "looping", "returned"}
      BY <2>7 DEF Start
    <3> QED
      BY <2>7, <3>1 DEF Start, Published
  <2>8. CASE Shutdown \/ ShutdownClears \/ Destroy
    BY <2>8 DEF Shutdown, ShutdownClears, Destroy, poolVars, Published
  <2>9. CASE UNCHANGED <<main, stopIndex, reactors, thread, stopped>>
    BY <2>9 DEF Published
  <2>10. CASE Accept
    BY <2>9, <2>10 DEF Accept
  <2>11. CASE Arrive \/ Poll \/ AcceptFails \/ UNCHANGED vars
    BY <2>9, <2>11 DEF Arrive, Poll, AcceptFails, vars, poolVars, mainVars
  <2>12. CASE \E c \in Conns : Handle(c) \/ ShutdownCloses(c) \/ Closes(c) \/ Meets(c)
    BY <2>9, <2>12 DEF Handle, ShutdownCloses, Closes, Meets, poolVars, mainVars
  <2>13. CASE \E t \in Threads : RunTask(t)
    BY <2>9, <2>13 DEF RunTask, poolVars, mainVars
  <2> QED
    BY <2>1, <2>3, <2>4, <2>5, <2>6, <2>7, <2>8, <2>10, <2>11, <2>12, <2>13 DEF Next
<1> QED
  BY <1>1, <1>2, IInvHolds, PTL DEF Spec

\* The destructor begins while all the threads of the pool loop.
StopBegins == main = "stopping" /\ stopIndex = 1 /\ AllLooping

\* stop() has a Looper to stop, a stopped thread has its loop to leave, or all
\* the threads can be joined: what StopNext, LeaveLoop and Join wait for.
StopCanGoOn ==
  \/ stopIndex <= Len(reactors)
  \/ \E t \in pool : thread[t] = "looping" /\ stopped[t]
  \/ \A t \in pool : thread[t] = "returned"

\* The destructor has returned, or an assertion or undefined behaviour ended
\* the program.
Ended == main = "done" \/ ~Ok

\* What holds from there on: the Loopers before i are stopped, and nothing
\* resets their stop_.
Stopping ==
  /\ main = "stopping"
  /\ \A t \in pool : thread[t] \in {"looping", "returned"}
  /\ \A i \in DOMAIN reactors : i < stopIndex => stopped[reactors[i]]

\* A destructor that begins while all the threads loop never gets to wait for
\* a thread that nothing stops (ReactorThreadPoll::stop, Looper::start).
THEOREM StopIsNeverStuck == Spec => [](StopBegins => [](Ended \/ StopCanGoOn))
<1>1. TypeOK /\ StopBegins => Stopping
  BY DEF StopBegins, AllLooping, Stopping, TypeOK
<1>2. TypeOK /\ Held /\ Published /\ [Next]_vars /\ Stopping => Stopping' \/ Ended'
  <2> SUFFICES ASSUME TypeOK, Held, Published, [Next]_vars, Stopping
               PROVE  Stopping' \/ Ended'
    OBVIOUS
  <2>1. \A t \in Threads : ~Publish(t) /\ ~StartLooper(t)
    BY DEF Publish, StartLooper, Held, Stopping
  <2>2. ASSUME NEW t \in Threads, LeaveLoop(t)  PROVE Stopping'
    <3>1. /\ thread' = [thread EXCEPT ![t] = "returned"]
          /\ UNCHANGED <<pool, main, stopped, stopIndex, reactors>>
      BY <2>2 DEF LeaveLoop, mainVars
    <3>2. \A u \in pool : thread'[u] \in {"looping", "returned"}
      BY <3>1 DEF Stopping, TypeOK
    <3> QED
      BY <3>1, <3>2 DEF Stopping
  <2>3. CASE StopNext
    <3>1. /\ stopped' = [stopped EXCEPT ![reactors[stopIndex]] = TRUE]
          /\ stopIndex' = stopIndex + 1 /\ UNCHANGED <<pool, main, thread, reactors>>
      BY <2>3 DEF StopNext, stopRest
    <3>2. ASSUME NEW i \in DOMAIN reactors, i < stopIndex'  PROVE stopped'[reactors[i]]
      <4>1. i \in Nat /\ stopIndex \in Nat /\ reactors[i] \in Threads
        BY DEF TypeOK, Published
      <4>2. i = stopIndex \/ i < stopIndex
        BY <3>1, <3>2, <4>1
      <4> QED
        BY <3>1, <4>1, <4>2 DEF Stopping, Published
    <3> QED
      BY <3>1, <3>2 DEF Stopping
  <2>4. Join => Ended'
    BY DEF Join, Ended
  <2>5. /\ ~Start /\ ~Poll /\ ~Accept /\ ~AcceptFails
        /\ ~Shutdown /\ ~ShutdownClears /\ ~Destroy
    BY DEF Stopping, Start, Poll, Accept, AcceptFails, Calls, Shutdown, ShutdownClears, Destroy
  <2>6. CASE UNCHANGED <<pool, main, stopIndex, reactors, thread, stopped>>
    BY <2>6 DEF Stopping
  <2>7. CASE Arrive \/ UNCHANGED vars
    BY <2>6, <2>7 DEF Arrive, vars, poolVars, mainVars
  <2>8. CASE \E c \in Conns : Handle(c) \/ ShutdownCloses(c) \/ Closes(c) \/ Meets(c)
    BY <2>6, <2>8 DEF Handle, ShutdownCloses, Closes, Meets, poolVars, mainVars
  <2>9. CASE \E t \in Threads : RunTask(t)
    BY <2>6, <2>9 DEF RunTask, poolVars, mainVars
  <2> QED
    BY <2>1, <2>2, <2>3, <2>4, <2>5, <2>7, <2>8, <2>9 DEF Next
<1>3. [Next]_vars /\ main = "done" => main' = "done"
  <2> SUFFICES ASSUME [Next]_vars, main = "done"  PROVE main' = "done"
    OBVIOUS
  <2>1. /\ ~Start /\ ~Poll /\ ~Accept /\ ~AcceptFails /\ ~Shutdown /\ ~ShutdownClears /\ ~Destroy
        /\ ~StopNext /\ ~Join
    BY DEF Start, Poll, Accept, AcceptFails, Calls, Shutdown, ShutdownClears, Destroy, StopNext, Join
  <2>2. \A t \in Threads : Publish(t) \/ StartLooper(t) \/ LeaveLoop(t) \/ RunTask(t) => main' = main
    BY DEF Publish, StartLooper, LeaveLoop, RunTask, mainVars
  <2>3. Arrive \/ UNCHANGED vars => main' = main
    BY DEF Arrive, vars, mainVars
  <2>4. \A c \in Conns : Handle(c) \/ ShutdownCloses(c) \/ Closes(c) \/ Meets(c) => main' = main
    BY DEF Handle, ShutdownCloses, Closes, Meets, mainVars
  <2> QED
    BY <2>1, <2>2, <2>3, <2>4 DEF Next
<1>4. [Next]_vars /\ ~Ok => ~Ok'
  <2> SUFFICES ASSUME [Next]_vars, ~Ok  PROVE ~Ok'
    OBVIOUS
  <2>1. \A t \in Threads : ~Publish(t) /\ ~StartLooper(t) /\ ~LeaveLoop(t) /\ ~RunTask(t)
    BY DEF Publish, StartLooper, LeaveLoop, RunTask
  <2>2. /\ ~Start /\ ~Poll /\ ~Accept /\ ~AcceptFails /\ ~Shutdown /\ ~ShutdownClears /\ ~Destroy
        /\ ~StopNext /\ ~Join /\ ~Arrive
    BY DEF Start, Poll, Accept, AcceptFails, Calls, Shutdown, ShutdownClears, Destroy, StopNext,
       Join, Arrive
  <2>3. \A c \in Conns : ~Handle(c) /\ ~ShutdownCloses(c) /\ ~Closes(c) /\ ~Meets(c)
    BY DEF Handle, Calls, ShutdownCloses, Closes, Meets
  <2> QED
    BY <2>1, <2>2, <2>3 DEF Next, vars, Ok
<1>5. [Next]_vars /\ Ended => Ended'
  BY <1>3, <1>4 DEF Ended
<1>6. TypeOK /\ Published /\ Stopping => StopCanGoOn
  <2> SUFFICES ASSUME TypeOK, Published, Stopping, ~(stopIndex <= Len(reactors)),
                      NEW t \in pool, thread[t] # "returned"
               PROVE  thread[t] = "looping" /\ stopped[t]
    BY DEF StopCanGoOn
  <2>1. thread[t] = "looping" /\ t \in Threads
    BY DEF Stopping, TypeOK
  <2>2. PICK i \in DOMAIN reactors : reactors[i] = t
    BY <2>1 DEF Published, Stopping
  <2>3. i < stopIndex
    BY DEF TypeOK, Published
  <2> QED
    BY <2>1, <2>2, <2>3 DEF Stopping
<1>7. IInv => TypeOK
  BY DEF IInv
<1> QED
  BY <1>1, <1>2, <1>5, <1>6, <1>7, IInvHolds, HeldHolds, PublishedHolds, PTL DEF Spec
=============================================================================
