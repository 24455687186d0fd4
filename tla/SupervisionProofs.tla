------------------------- MODULE SupervisionProofs -------------------------
(***************************************************************************)
(* What holds of the supervisor's pid files for any services, scripts and  *)
(* configurations: a running process is tracked, and what was stopped is   *)
(* down, unless one of the named races or a death met it.                  *)
(***************************************************************************)
EXTENDS Supervision, WellFoundedInduction, TLAPS

(* The runner is off exactly when its process is.                          *)
TypeInv == TypeOK /\ (run = "off" <=> pc[Runner] = "off")

(* No pid file, or one of a process that is gone.                          *)
Vacant(s) == pidfile[s] = NoPid \/ proc[pidfile[s]] = "gone"

(* What a controller knows at each place. A starter has found no process,  *)
(* and no file names one until it writes its own, or somebody was in its   *)
(* way; the pid it is about to write is of the service it starts; a pid    *)
(* whose file it is about to remove has no process left, unless SIGKILL    *)
(* was refused.                                                            *)
ActorOK(a) ==
  /\ pc[a] \in {"spawn", "write"} =>
       Kind(a) = "start" /\ (Svc(a) \in mixed \/ Vacant(Svc(a)))
  /\ pc[a] \in {"clear", "write", "wait", "unpid"} => pid[a] \in Pids
  /\ pc[a] = "clear" => proc[pid[a]] = "gone"
  /\ pc[a] = "unpid" => ~Live(pid[a]) \/ Svc(a) \in orphaned
  /\ pc[a] = "write" /\ Live(pid[a]) => service[pid[a]] = Svc(a)

ActorInv == \A a \in Actors : ActorOK(a)

(* What runs, runs a service.                                              *)
ServiceInv == \A p \in Pids : Live(p) => service[p] \in Services

(* Two starters with a process each have met.                              *)
PairInv ==
  \A a, b \in Actors :
    a # b /\ pc[a] = "write" /\ pc[b] = "write" /\ Svc(a) = Svc(b) => Svc(a) \in mixed

(* Whatever still runs of a stopped service, somebody waits for.           *)
StopInv ==
  \A s \in stopped \ (mixed \cup orphaned) : \A p \in LiveOf(s) :
    \E a \in Actors : pc[a] = "wait" /\ Svc(a) = s /\ pid[a] = p

IInv == ServiceInv /\ ActorInv /\ PairInv /\ Tracked /\ StopInv

-----------------------------------------------------------------------------
(* A set of numbers with a member has a least one: what induction on       *)
(* numbers comes down to.                                                  *)
LEMMA Least ==
  ASSUME NEW T \in SUBSET Nat, T # {}
  PROVE  \E n \in T : \A m \in T : n <= m
<1>1. IsWellFoundedOn(OpToRel(<, Nat), Nat)
  BY NatLessThanWellFounded
<1> DEFINE R == OpToRel(<, Nat)
<1>2. \A x, y \in Nat : x < y => <<x, y>> \in R
  BY DEF OpToRel
<1>3. IsWellFoundedOn(R, Nat)
  BY <1>1
<1> HIDE DEF R
<1>4. PICK n \in T : \A y \in T : ~ (<<y, n>> \in R)
  BY <1>3, WFMin, Zenon
<1>5. \A y \in T : ~ (y < n)
  BY <1>2, <1>4
<1>6. \A y \in T : n <= y
  BY <1>5
<1>7. QED
  BY <1>6

(* A pass and a command are made of tasks: the services of a set, picked   *)
(* from Managed one after the other, give a sequence of tasks.             *)
LEMMA EachType ==
  ASSUME NEW kind \in Kinds, NEW S
  PROVE  Each(kind, S) \in Seq(Tasks)
<1> DEFINE N == Len(Managed)
           E(g, i) == IF i = 0 THEN <<>>
                      ELSE IF Managed[i] \in S THEN Append(g[i - 1], <<kind, Managed[i]>>)
                      ELSE g[i - 1]
           Good(g, n) == /\ g \in [0 .. n -> Seq(Tasks)]
                         /\ \A i \in 0 .. n : g[i] = E(g, i)
<1>1. N \in Nat /\ \A i \in 1 .. N : Managed[i] \in Services
  BY SupervisionAssumption
<1>2. \A i \in 1 .. N : <<kind, Managed[i]>> \in Tasks
  BY <1>1 DEF Tasks
<1>3. ASSUME NEW q \in Seq(Tasks), NEW i \in 1 .. N
      PROVE  Append(q, <<kind, Managed[i]>>) \in Seq(Tasks)
  <2>1. PICK t \in Tasks : t = <<kind, Managed[i]>>
    BY <1>2
  <2> HIDE DEF Tasks
  <2>2. Append(q, t) \in Seq(Tasks)
    OBVIOUS
  <2>3. QED
    BY <2>1, <2>2
<1>4. \E g : Good(g, 0)
  <2>1. Good([i \in 0 .. 0 |-> <<>>], 0)
    OBVIOUS
  <2>2. QED
    BY <2>1
<1>5. ASSUME NEW n \in 0 .. N, n # N, NEW g, Good(g, n)
      PROVE  \E h : Good(h, n + 1)
  <2> DEFINE h == [i \in 0 .. n + 1 |-> IF i = n + 1 THEN E(g, n + 1) ELSE g[i]]
  <2>1. n + 1 \in 1 .. N /\ n \in Nat /\ n \in 0 .. n /\ (n + 1) - 1 = n /\ n + 1 # 0
    BY <1>1, <1>5
  <2>2. g[n] \in Seq(Tasks)
    BY <1>5, <2>1
  <2>3. E(g, n + 1) \in Seq(Tasks)
    BY <1>3, <2>1, <2>2
  <2>4. \A i \in 0 .. n + 1 : i # n + 1 => i \in 0 .. n
    BY <2>1
  <2>5. h \in [0 .. n + 1 -> Seq(Tasks)]
    BY <1>5, <2>3, <2>4
  <2>6. ASSUME NEW i \in 0 .. n + 1 PROVE h[i] = E(h, i)
    <3>1. CASE i = 0
      BY <3>1, <2>1, <1>5
    <3>2. CASE i # 0
      <4>1. i - 1 \in 0 .. n /\ i - 1 \in 0 .. n + 1 /\ i - 1 # n + 1
        BY <3>2, <2>1
      <4>2. h[i - 1] = g[i - 1]
        BY <4>1
      <4>3. CASE i = n + 1
        BY <4>2, <4>3, <2>1
      <4>4. CASE i # n + 1
        <5>1. i \in 0 .. n
          BY <2>4, <4>4
        <5>2. h[i] = g[i] /\ g[i] = E(g, i)
          BY <5>1, <4>4, <1>5
        <5>3. QED
          BY <5>2, <4>2, <3>2
      <4>5. QED
        BY <4>3, <4>4
    <3>3. QED
      BY <3>1, <3>2
  <2>7. Good(h, n + 1)
    BY <2>5, <2>6
  <2>8. QED
    BY <2>7
<1> HIDE DEF Good
<1>6. \A n \in 0 .. N : \E g : Good(g, n)
  <2> DEFINE T == {n \in 0 .. N : ~ \E g : Good(g, n)}
  <2>1. SUFFICES ASSUME T # {} PROVE FALSE
    OBVIOUS
  <2>2. T \in SUBSET Nat
    BY <1>1
  <2>3. PICK n \in T : \A m \in T : n <= m
    BY <2>1, <2>2, Least
  <2>4. n \in 0 .. N /\ n \in Nat /\ n # 0
    BY <1>1, <1>4
  <2>5. n - 1 \in 0 .. N /\ n - 1 # N /\ ~ (n <= n - 1) /\ (n - 1) + 1 = n
    BY <2>4, <1>1
  <2>6. n - 1 \notin T
    BY <2>3, <2>5
  <2>7. PICK g : Good(g, n - 1)
    BY <2>5, <2>6
  <2>8. \E h : Good(h, (n - 1) + 1)
    BY <1>5, <2>5, <2>7
  <2>9. QED
    BY <2>8, <2>5
<1>7. PICK g : Good(g, N)
  BY <1>1, <1>6
<1>8. g = [i \in 0 .. N |-> E(g, i)]
  BY <1>7 DEF Good
<1> DEFINE f == CHOOSE h : h = [i \in 0 .. N |-> E(h, i)]
<1>9. f = [i \in 0 .. N |-> E(f, i)]
  BY <1>8
<1>10. Each(kind, S) = f[N]
  BY DEF Each
<1> HIDE DEF f
<1>11. \A i \in 0 .. N : f[i] = E(f, i)
  BY <1>9
<1>12. \A i \in 0 .. N : f[i] \in Seq(Tasks)
  <2> DEFINE T == {i \in 0 .. N : f[i] \notin Seq(Tasks)}
  <2>1. SUFFICES ASSUME T # {} PROVE FALSE
    OBVIOUS
  <2>2. T \in SUBSET Nat
    BY <1>1
  <2>3. PICK n \in T : \A m \in T : n <= m
    BY <2>1, <2>2, Least
  <2>4. n \in 0 .. N /\ n \in Nat /\ f[n] \notin Seq(Tasks)
    BY <1>1
  <2>5. n # 0
    <3>1. SUFFICES ASSUME n = 0 PROVE FALSE
      OBVIOUS
    <3>2. f[n] = <<>>
      BY <1>11, <2>4, <3>1
    <3>3. <<>> \in Seq(Tasks)
      OBVIOUS
    <3>4. QED
      BY <3>2, <3>3, <2>4, Zenon
  <2>6. n - 1 \in 0 .. N /\ ~ (n <= n - 1) /\ n \in 1 .. N
    BY <2>4, <2>5, <1>1
  <2>7. f[n - 1] \in Seq(Tasks)
    BY <2>3, <2>6
  <2>8. Append(f[n - 1], <<kind, Managed[n]>>) \in Seq(Tasks)
    BY <1>3, <2>6, <2>7
  <2>9. f[n] = E(f, n)
    BY <1>11, <2>4
  <2>10. QED
    BY <2>4, <2>5, <2>7, <2>8, <2>9
<1>13. QED
  BY <1>10, <1>12, <1>1

(* So is every list that the runner or a script works off.                 *)
LEMMA ListsType ==
  /\ \A m, force : ApplyState(m, force) \in Seq(Tasks)
  /\ Commands \subseteq Seq(Tasks)
<1>1. \A k \in Kinds : \A S : Each(k, S) \in Seq(Tasks)
  BY EachType
<1>2. {"start", "stop", "stopif", "look", "probe"} \subseteq Kinds
  BY DEF Kinds
<1>3. \A S : /\ Each("start", S) \in Seq(Tasks) /\ Each("stop", S) \in Seq(Tasks)
             /\ Each("stopif", S) \in Seq(Tasks) /\ Each("look", S) \in Seq(Tasks)
             /\ Each("probe", S) \in Seq(Tasks)
  BY <1>1, <1>2
<1>4. \A q, r \in Seq(Tasks) : q \o r \in Seq(Tasks)
  OBVIOUS
<1>5. <<>> \in Seq(Tasks)
  OBVIOUS
<1>6. ASSUME NEW m, NEW force PROVE ApplyState(m, force) \in Seq(Tasks)
  <2> DEFINE first == IF force THEN Each("stopif", Wanted[m])
                      ELSE Each("stopif", Services \ Wanted[m])
             second == Each("start", Wanted[m])
             third == Each("look", Services)
  <2>1. first \in Seq(Tasks) /\ second \in Seq(Tasks) /\ third \in Seq(Tasks)
    BY <1>3, Zenon
  <2>2. ApplyState(m, force) = (first \o second) \o third
    BY DEF ApplyState
  <2> HIDE DEF first, second, third
  <2>3. QED
    BY <2>1, <2>2, <1>4
<1>7. ASSUME NEW q \in Commands PROVE q \in Seq(Tasks)
  <2>1. \/ q = Each("start", Services) \o Each("look", Services)
        \/ q = Each("probe", Services)
        \/ \E S : q = Each("stop", S) \o Each("look", Services)
    BY DEF Commands
  <2>2. QED
    BY <2>1, <1>3, <1>4
<1>8. QED
  BY <1>6, <1>7

(* Where a controller goes stays within its types.                         *)
LEMMA FollowType ==
  ASSUME TypeOK, NEW a \in Actors, NEW q \in Seq(Tasks), Follow(a, q)
  PROVE  /\ pc' \in [Actors -> Labels] /\ todo' \in [Actors -> Seq(Tasks)]
         /\ \A b \in Actors : pc'[b] \in {"off", "idle"} <=> todo'[b] = <<>>
         /\ pc'[a] # "off"
BY DEF TypeOK, Follow, Labels

(* A move within a task keeps the actors' types. *)
LEMMA GotoType ==
  ASSUME TypeOK, NEW a \in Actors, NEW l \in Labels \ {"off", "idle"}, Goto(a, l),
         pc[a] \notin {"off", "idle"}
  PROVE  /\ pc' \in [Actors -> Labels] /\ todo' \in [Actors -> Seq(Tasks)]
         /\ \A b \in Actors : pc'[b] \in {"off", "idle"} <=> todo'[b] = <<>>
         /\ pc'[a] # "off"
BY DEF TypeOK, Goto

(* The task at hand, and the ones after it.                                *)
LEMMA TaskType ==
  ASSUME TypeOK, NEW a \in Actors, pc[a] \notin {"off", "idle"}
  PROVE  /\ Kind(a) \in Kinds /\ Svc(a) \in Services
         /\ Tail(todo[a]) \in Seq(Tasks)
         /\ Append(Tail(todo[a]), <<"stop", Svc(a)>>) \in Seq(Tasks)
<1>1. todo[a] \in Seq(Tasks) /\ todo[a] # <<>>
  BY DEF TypeOK
<1>2. Head(todo[a]) \in Tasks /\ Tail(todo[a]) \in Seq(Tasks)
  BY <1>1
<1>3. Kind(a) \in Kinds /\ Svc(a) \in Services
  BY <1>2 DEF Kind, Svc, Tasks
<1>4. PICK t \in Tasks : t = <<"stop", Svc(a)>>
  BY <1>3 DEF Tasks, Kinds
<1> HIDE DEF Tasks
<1>5. Append(Tail(todo[a]), t) \in Seq(Tasks)
  BY <1>2
<1>6. QED
  BY <1>2, <1>3, <1>4, <1>5

-----------------------------------------------------------------------------
(* A controller moves and stays up; the others do not move.                *)
Moves(a) ==
  /\ pc' \in [Actors -> Labels] /\ todo' \in [Actors -> Seq(Tasks)]
  /\ pid' \in [Actors -> Pids \cup {NoPid}]
  /\ \A b \in Actors : pc'[b] \in {"off", "idle"} <=> todo'[b] = <<>>
  /\ pc'[a] # "off"
  /\ \A b \in Actors \ {a} : pc'[b] = pc[b] /\ todo'[b] = todo[b] /\ pid'[b] = pid[b]

(* What a controller and the processes do to a type.                       *)
ProcTypes ==
  /\ proc' \in [Pids -> {"gone", "alive", "terming", "zombie"}]
  /\ service' \in [Pids -> Services \cup {"none"}]
  /\ parent' \in [Pids -> Actors \cup {"init"}]

GhostTypes ==
  /\ pidfile' \in [Services -> Pids \cup {NoPid}]
  /\ mixed' \cup orphaned' \cup stopped' \subseteq Services

(* Taking up a list of tasks moves one actor. *)
LEMMA FollowMoves ==
  ASSUME TypeOK, NEW a \in Actors, NEW q \in Seq(Tasks), Follow(a, q),
         NEW p \in Pids \cup {NoPid},
         pid' = [pid EXCEPT ![a] = p] \/ UNCHANGED pid
  PROVE  /\ Moves(a) /\ todo'[a] = q
         /\ pc'[a] = IF q = <<>> THEN "idle" ELSE "task"
<1>1. pid' \in [Actors -> Pids \cup {NoPid}] /\ \A b \in Actors \ {a} : pid'[b] = pid[b]
  BY DEF TypeOK
<1>2. \A b \in Actors \ {a} : pc'[b] = pc[b] /\ todo'[b] = todo[b]
  BY DEF TypeOK, Follow
<1>3. todo'[a] = q /\ pc'[a] = IF q = <<>> THEN "idle" ELSE "task"
  BY DEF TypeOK, Follow
<1>4. QED
  BY <1>1, <1>2, <1>3, FollowType DEF Moves

(* A move within a task moves one actor. *)
LEMMA GotoMoves ==
  ASSUME TypeOK, NEW a \in Actors, NEW l \in Labels \ {"off", "idle"}, Goto(a, l),
         pc[a] \notin {"off", "idle"},
         NEW p \in Pids \cup {NoPid},
         pid' = [pid EXCEPT ![a] = p] \/ UNCHANGED pid
  PROVE  /\ Moves(a) /\ pc'[a] = l /\ Kind(a)' = Kind(a) /\ Svc(a)' = Svc(a)
         /\ UNCHANGED todo
<1>1. pid' \in [Actors -> Pids \cup {NoPid}] /\ \A b \in Actors \ {a} : pid'[b] = pid[b]
  BY DEF TypeOK
<1>2. \A b \in Actors \ {a} : pc'[b] = pc[b] /\ todo'[b] = todo[b]
  BY DEF TypeOK, Goto
<1>3. pc'[a] = l /\ todo' = todo
  BY DEF TypeOK, Goto
<1>4. Kind(a)' = Kind(a) /\ Svc(a)' = Svc(a)
  BY <1>3 DEF Kind, Svc
<1>5. QED
  BY <1>1, <1>2, <1>3, <1>4, GotoType DEF Moves

(* An actor done with a task is idle or at the next one. *)
LEMMA DoneMoves ==
  ASSUME TypeOK, NEW a \in Actors, pc[a] \notin {"off", "idle"}, Done(a)
  PROVE  Moves(a) /\ pc'[a] \in {"idle", "task"}
<1>1. Tail(todo[a]) \in Seq(Tasks)
  BY TaskType
<1>2. Follow(a, Tail(todo[a])) /\ pid' = [pid EXCEPT ![a] = NoPid]
  BY DEF Done
<1>3. QED
  BY <1>1, <1>2, FollowMoves

(* After is_running has said no, a start goes on to Popen.                 *)
LEMMA NotRunningMoves ==
  ASSUME TypeOK, NEW a \in Actors, pc[a] \notin {"off", "idle"}, NotRunning(a)
  PROVE  /\ Moves(a)
         /\ \/ pc'[a] \in {"idle", "task"}
            \/ pc'[a] = "spawn" /\ Kind(a) = "start" /\ Kind(a)' = "start" /\ Svc(a)' = Svc(a)
<1>1. pid' = [pid EXCEPT ![a] = NoPid]
  BY DEF NotRunning
<1>2. CASE Kind(a) = "start"
  <2>1. Goto(a, "spawn")
    BY <1>2 DEF NotRunning
  <2>2. "spawn" \in Labels \ {"off", "idle"}
    BY DEF Labels
  <2>3. Moves(a) /\ pc'[a] = "spawn" /\ Kind(a)' = Kind(a) /\ Svc(a)' = Svc(a)
    BY <1>1, <2>1, <2>2, GotoMoves
  <2>4. QED
    BY <2>3, <1>2
<1>3. CASE Kind(a) # "start"
  <2>1. Follow(a, Tail(todo[a]))
    BY <1>3 DEF NotRunning
  <2>2. Moves(a) /\ pc'[a] \in {"idle", "task"}
    BY <1>1, <2>1, TaskType, FollowMoves
  <2>3. QED
    BY <2>2
<1>4. QED
  BY <1>2, <1>3

(* An actor that found its service running reads on or is done. *)
LEMMA RunningMoves ==
  ASSUME TypeOK, NEW a \in Actors, pc[a] \notin {"off", "idle"}, Running(a)
  PROVE  Moves(a) /\ pc'[a] \in {"idle", "task", "read"}
<1>1. UNCHANGED pid
  BY DEF Running
<1>2. CASE Kind(a) = "stopif"
  <2>1. Goto(a, "read")
    BY <1>2 DEF Running
  <2>2. "read" \in Labels \ {"off", "idle"}
    BY DEF Labels
  <2>3. QED
    BY <1>1, <2>1, <2>2, GotoMoves
<1>3. CASE Kind(a) = "probe"
  <2>1. Follow(a, Append(Tail(todo[a]), <<"stop", Svc(a)>>))
    BY <1>3 DEF Running
  <2>2. Append(Tail(todo[a]), <<"stop", Svc(a)>>) \in Seq(Tasks)
    BY TaskType
  <2>3. Moves(a) /\ pc'[a] \in {"idle", "task"}
    BY <1>1, <2>1, <2>2, FollowMoves
  <2>4. QED
    BY <2>3
<1>4. CASE Kind(a) # "stopif" /\ Kind(a) # "probe"
  <2>1. Follow(a, Tail(todo[a]))
    BY <1>4 DEF Running
  <2>2. Moves(a) /\ pc'[a] \in {"idle", "task"}
    BY <1>1, <2>1, TaskType, FollowMoves
  <2>3. QED
    BY <2>2
<1>5. QED
  BY <1>2, <1>3, <1>4

-----------------------------------------------------------------------------
(* Steps that start no process and write no pid file: what runs ran        *)
(* before, what is gone stays gone, and a pid file stays or is removed.    *)
LiveThen(p) == proc'[p] \in {"alive", "terming"}

Calm ==
  /\ \A p \in Pids : LiveThen(p) => Live(p) /\ service'[p] = service[p]
  /\ \A p \in Pids : proc[p] = "gone" => proc'[p] = "gone"
  /\ mixed \subseteq mixed' /\ orphaned \subseteq orphaned'
  /\ \A s \in Services : pidfile'[s] \in {pidfile[s], NoPid}

Stays(b) == pc'[b] = pc[b] /\ todo'[b] = todo[b] /\ pid'[b] = pid[b]

(* An actor that stays keeps its task. *)
LEMMA StaysSame ==
  ASSUME NEW b \in Actors, Stays(b)
  PROVE  Kind(b)' = Kind(b) /\ Svc(b)' = Svc(b)
BY DEF Stays, Kind, Svc

(* A controller that does not move knows as much after a calm step.        *)
LEMMA Bystander ==
  ASSUME TypeOK, Calm, NEW b \in Actors, ActorOK(b), Stays(b)
  PROVE  ActorOK(b)'
<1>1. Kind(b)' = Kind(b) /\ Svc(b)' = Svc(b) /\ pc'[b] = pc[b] /\ pid'[b] = pid[b]
  BY StaysSame DEF Stays
<1>2. ASSUME pc[b] \in {"spawn", "write"}
      PROVE  Kind(b)' = "start" /\ (Svc(b)' \in mixed' \/ Vacant(Svc(b))')
  <2>1. Svc(b) \in Services /\ pidfile[Svc(b)] \in Pids \cup {NoPid}
    BY <1>2, TaskType DEF TypeOK
  <2>2. Kind(b) = "start" /\ (Svc(b) \in mixed \/ Vacant(Svc(b)))
    BY <1>2 DEF ActorOK
  <2>3. Svc(b) \in mixed' \/ pidfile'[Svc(b)] = NoPid \/ proc'[pidfile'[Svc(b)]] = "gone"
    BY <2>1, <2>2 DEF Calm, Vacant
  <2>4. QED
    BY <2>2, <2>3, <1>1 DEF Vacant
<1>3. pc'[b] \in {"clear", "write", "wait", "unpid"} => pid'[b] \in Pids
  BY <1>1 DEF ActorOK
<1>4. pc'[b] = "clear" => proc'[pid'[b]] = "gone"
  BY <1>1 DEF ActorOK, Calm
<1>5. pc'[b] = "unpid" => ~LiveThen(pid[b]) \/ Svc(b) \in orphaned'
  BY <1>1 DEF ActorOK, Calm
<1>6. pc'[b] = "write" /\ LiveThen(pid[b]) => service'[pid[b]] = Svc(b)
  BY <1>1 DEF ActorOK, Calm
<1>7. QED
  BY <1>1, <1>2, <1>3, <1>4, <1>5, <1>6 DEF ActorOK, Live, LiveThen

(* What the controllers that move in a calm step have to see to.           *)
Handover(A) ==
  /\ \A b \in Actors \ A : Stays(b)
  /\ \A a \in A : ActorOK(a)'
  /\ \A a \in A : pc'[a] # "write"
  /\ \A a \in A : pc[a] = "write" => Svc(a) \in orphaned'
  /\ \A a \in A : pc[a] = "wait" => Svc(a) \notin stopped' \ orphaned' \/ ~LiveThen(pid[a])
  /\ \A s \in stopped' \ stopped : \A p \in Pids :
       LiveThen(p) /\ service'[p] = s /\ s \notin mixed' \cup orphaned' =>
         \E b \in Actors : pc'[b] = "wait" /\ Svc(b)' = s /\ pid'[b] = p
  /\ \A s \in Services :
       pidfile'[s] # pidfile[s] /\ LiveThen(pidfile[s]) => s \in mixed' \cup orphaned'

(* A step that starts and clears nothing keeps the invariant. *)
LEMMA CalmKeeps ==
  ASSUME TypeOK, TypeOK', IInv, Calm, NEW A \in SUBSET Actors, Handover(A)
  PROVE  IInv'
<1>1. ActorInv'
  <2>1. ASSUME NEW b \in Actors PROVE ActorOK(b)'
    <3>1. CASE b \in A
      BY <3>1 DEF Handover
    <3>2. CASE b \notin A
      <4>1. Stays(b) /\ ActorOK(b)
        BY <3>2 DEF Handover, IInv, ActorInv
      <4>2. QED
        BY <4>1, Bystander
    <3>3. QED
      BY <3>1, <3>2
  <2>2. QED
    BY <2>1 DEF ActorInv
<1>2. ASSUME NEW b \in Actors, pc'[b] = "write" PROVE b \notin A /\ Stays(b)
  BY <1>2 DEF Handover
<1>3. PairInv'
  <2>1. ASSUME NEW a \in Actors, NEW b \in Actors,
               a # b, pc'[a] = "write", pc'[b] = "write", Svc(a)' = Svc(b)'
        PROVE  Svc(a)' \in mixed'
    <3>1. Stays(a) /\ Stays(b)
      BY <2>1, <1>2
    <3>2. pc[a] = "write" /\ pc[b] = "write" /\ Svc(a) = Svc(b) /\ Svc(a)' = Svc(a)
      BY <3>1, <2>1, StaysSame DEF Stays
    <3>3. Svc(a) \in mixed
      BY <3>2, <2>1 DEF IInv, PairInv
    <3>4. QED
      BY <3>2, <3>3 DEF Calm
  <2>2. QED
    BY <2>1 DEF PairInv
<1>4. Tracked'
  <2>1. ASSUME NEW p \in Pids, LiveThen(p)
        PROVE  \/ pidfile'[service'[p]] = p
               \/ \E a \in Actors : pid'[a] = p /\ pc'[a] = "write"
               \/ service'[p] \in mixed' \cup orphaned'
    <3>1. Live(p) /\ service'[p] = service[p]
      BY <2>1 DEF Calm
    <3>2. CASE pidfile[service[p]] = p /\ service[p] \in Services
      <4>1. LiveThen(pidfile[service[p]])
        BY <3>2, <2>1
      <4>2. QED
        BY <3>1, <3>2, <4>1 DEF Handover
    <3>3. ASSUME NEW a \in Actors, pid[a] = p, pc[a] = "write"
          PROVE  service[p] \in orphaned' \/ (pid'[a] = p /\ pc'[a] = "write")
      <4>1. CASE a \in A
        <5>1. service[p] = Svc(a)
          BY <3>3, <3>1 DEF IInv, ActorInv, ActorOK
        <5>2. QED
          BY <5>1, <4>1, <3>3 DEF Handover
      <4>2. CASE a \notin A
        BY <4>2, <3>3 DEF Handover, Stays
      <4>3. QED
        BY <4>1, <4>2
    <3>4. CASE service[p] \in mixed \cup orphaned
      BY <3>1, <3>4 DEF Calm
    <3>5. \/ pidfile[service[p]] = p
          \/ \E a \in Actors : pid[a] = p /\ pc[a] = "write"
          \/ service[p] \in mixed \cup orphaned
      BY <3>1 DEF IInv, Tracked
    <3>6. service[p] \in Services
      BY <3>1 DEF IInv, ServiceInv
    <3>7. QED
      BY <3>1, <3>2, <3>3, <3>4, <3>5, <3>6
  <2>2. QED
    BY <2>1 DEF Tracked, Live, LiveThen
<1>5. StopInv'
  <2>1. ASSUME NEW s, s \in stopped', s \notin mixed', s \notin orphaned',
               NEW p \in Pids, LiveThen(p), service'[p] = s
        PROVE  \E a \in Actors : pc'[a] = "wait" /\ Svc(a)' = s /\ pid'[a] = p
    <3>1. Live(p) /\ service[p] = s
      BY <2>1 DEF Calm
    <3> SUFFICES ASSUME s \in stopped
                 PROVE  \E a \in Actors : pc'[a] = "wait" /\ Svc(a)' = s /\ pid'[a] = p
      BY <2>1 DEF Handover
    <3>2. s \in stopped \ (mixed \cup orphaned) /\ p \in LiveOf(s)
      BY <2>1, <3>1 DEF Calm, LiveOf
    <3>3. PICK a \in Actors : pc[a] = "wait" /\ Svc(a) = s /\ pid[a] = p
      BY <3>2 DEF IInv, StopInv
    <3>4. a \notin A
      BY <3>3, <2>1 DEF Handover
    <3>5. Stays(a)
      BY <3>4 DEF Handover
    <3>6. QED
      BY <3>3, <3>5, StaysSame DEF Stays
  <2>2. QED
    BY <2>1 DEF StopInv, LiveOf, Live, LiveThen
<1>6. ServiceInv'
  <2>1. ASSUME NEW p \in Pids, LiveThen(p) PROVE service'[p] \in Services
    BY <2>1 DEF Calm, IInv, ServiceInv
  <2>2. QED
    BY <2>1 DEF ServiceInv, Live, LiveThen
<1>7. QED
  BY <1>1, <1>3, <1>4, <1>5, <1>6 DEF IInv

-----------------------------------------------------------------------------
(* Types: a controller at work, its processes and files.                   *)
LEMMA WorkTypes ==
  ASSUME TypeInv, NEW a \in Actors, pc[a] # "off", Moves(a), ProcTypes, GhostTypes,
         UNCHANGED cfgVars, incidents' = incidents \/ Incident
  PROVE  TypeInv'
<1>0. incidents' \in 0 .. MaxIncidents
  BY SupervisionAssumption DEF TypeInv, TypeOK, Incident
<1>1. TypeOK'
  BY <1>0 DEF TypeInv, TypeOK, Moves, ProcTypes, GhostTypes, cfgVars
<1>2. pc'[Runner] = "off" <=> pc[Runner] = "off"
  BY DEF Moves, Actors
<1>3. run' = run
  BY DEF cfgVars
<1>4. QED
  BY <1>1, <1>2, <1>3 DEF TypeInv

(* Untouched processes keep their types. *)
LEMMA SameProcs == ASSUME TypeOK, UNCHANGED procVars PROVE ProcTypes
BY DEF TypeOK, ProcTypes, procVars

(* An exit: nothing starts.                                                *)
LEMMA ExitsEffect ==
  ASSUME TypeOK, NEW p \in Pids, Exits(p)
  PROVE  /\ ProcTypes
         /\ ~LiveThen(p)
         /\ \A q \in Pids : LiveThen(q) => Live(q) /\ service'[q] = service[q]
         /\ proc[p] # "gone" => \A q \in Pids : proc[q] = "gone" => proc'[q] = "gone"
BY DEF TypeOK, Exits, ProcTypes, LiveThen, Live

(* ClearPid removes the file of a dead process, or marks the service, or   *)
(* leaves the file.                                                        *)
LEMMA ClearEffect ==
  ASSUME TypeOK, NEW a \in Actors, pc[a] \notin {"off", "idle"}, ClearPid(a),
         UNCHANGED <<orphaned, stopped>>,
         pid[a] \in Pids => ~Live(pid[a]) \/ Svc(a) \in orphaned
  PROVE  /\ GhostTypes /\ mixed \subseteq mixed'
         /\ \A s \in Services : pidfile'[s] \in {pidfile[s], NoPid}
         /\ \A s \in Services : pidfile'[s] # pidfile[s] =>
              \/ s \in mixed' \cup orphaned
              \/ pidfile[s] \in Pids /\ ~Live(pidfile[s])
         /\ pidfile'[Svc(a)] \in {NoPid, pidfile[Svc(a)]}
         /\ incidents' = incidents \/ Incident
<1>1. Svc(a) \in Services
  BY TaskType
<1>2. pidfile[Svc(a)] \in Pids \cup {NoPid}
  BY <1>1 DEF TypeOK
<1>3. CASE pidfile' = pidfile /\ Incident
  <2>1. mixed' = mixed \/ mixed' = mixed \cup {Svc(a)}
    BY DEF ClearPid
  <2>2. QED
    BY <1>1, <1>3, <2>1 DEF GhostTypes, TypeOK
<1>4. CASE ~(pidfile' = pidfile /\ Incident)
  <2>1. pidfile' = [pidfile EXCEPT ![Svc(a)] = NoPid] /\ incidents' = incidents
    BY <1>4 DEF ClearPid
  <2>2. mixed' = mixed \/ mixed' = mixed \cup {Svc(a)}
    BY <1>4 DEF ClearPid
  <2>3. pidfile[Svc(a)] \in {NoPid, pid[a]} \/ Svc(a) \in mixed'
    BY <1>4 DEF ClearPid
  <2>4. GhostTypes
    BY <1>1, <2>1, <2>2 DEF GhostTypes, TypeOK
  <2>5. \A s \in Services : s # Svc(a) => pidfile'[s] = pidfile[s]
    BY <2>1 DEF TypeOK
  <2>6. pidfile'[Svc(a)] = NoPid
    BY <1>1, <2>1 DEF TypeOK
  <2>7. QED
    BY <1>1, <1>2, <2>1, <2>2, <2>3, <2>4, <2>5, <2>6
<1>5. QED
  BY <1>3, <1>4

(* _reap and init's reaping when a controller is gone.                     *)
LEMMA DisownEffect ==
  ASSUME TypeOK, NEW a \in Actors, Disown(a)
  PROVE  /\ ProcTypes
         /\ \A q \in Pids : LiveThen(q) => Live(q) /\ service'[q] = service[q]
         /\ \A q \in Pids : proc[q] = "gone" => proc'[q] = "gone"
BY DEF TypeOK, Disown, ProcTypes, LiveThen, Live

(* An actor that leaves stops no other. *)
LEMMA LeaveMoves ==
  ASSUME TypeInv, NEW a \in Actors, Leave(a)
  PROVE  /\ pc'[a] = "off" /\ \A b \in Actors \ {a} : Stays(b)
         /\ pc' \in [Actors -> Labels] /\ todo' \in [Actors -> Seq(Tasks)]
         /\ pid' \in [Actors -> Pids \cup {NoPid}]
         /\ \A b \in Actors : pc'[b] \in {"off", "idle"} <=> todo'[b] = <<>>
         /\ run' \in {"off", "on", "stopping", "leaving"} /\ last' \in Modes \cup {"none"}
         /\ run' = "off" <=> pc'[Runner] = "off"
<1>1. /\ pc' = [pc EXCEPT ![a] = "off"] /\ todo' = [todo EXCEPT ![a] = <<>>]
      /\ pid' = [pid EXCEPT ![a] = NoPid]
  BY DEF Leave
<1>2. <<>> \in Seq(Tasks) /\ "off" \in Labels
  BY DEF Labels
<1>3. /\ pc' \in [Actors -> Labels] /\ todo' \in [Actors -> Seq(Tasks)]
      /\ pid' \in [Actors -> Pids \cup {NoPid}]
  BY <1>1, <1>2 DEF TypeInv, TypeOK
<1>4. pc'[a] = "off" /\ todo'[a] = <<>> /\ \A b \in Actors \ {a} : Stays(b)
  BY <1>1 DEF TypeInv, TypeOK, Stays
<1>5. \A b \in Actors : pc'[b] \in {"off", "idle"} <=> todo'[b] = <<>>
  BY <1>4 DEF TypeInv, TypeOK, Stays
<1>6. /\ run' \in {"off", "on", "stopping", "leaving"} /\ last' \in Modes \cup {"none"}
      /\ run' = "off" <=> pc'[Runner] = "off"
  <2>1. Runner \in Actors
    BY DEF Actors
  <2>2. CASE a = Runner
    BY <2>2, <1>4 DEF Leave
  <2>3. CASE a # Runner
    BY <2>1, <2>3, <1>4 DEF Leave, TypeInv, TypeOK, Stays
  <2>4. QED
    BY <2>2, <2>3
<1>7. QED
  BY <1>3, <1>4, <1>5, <1>6

-----------------------------------------------------------------------------
(* One lemma for each action. A controller that only moves: nothing else   *)
(* changes, and it was neither about to write a pid nor waiting.           *)
LEMMA QuietKeeps ==
  ASSUME TypeInv, TypeOK', IInv, NEW a \in Actors, Moves(a), ActorOK(a)', pc'[a] # "write",
         pc[a] # "write", pc[a] = "wait" => pid[a] \in Pids /\ ~Live(pid[a]),
         UNCHANGED <<pidfile, procVars, ghostVars>>
  PROVE  IInv'
<1>1. /\ pidfile' = pidfile /\ proc' = proc /\ service' = service
      /\ mixed' = mixed /\ orphaned' = orphaned /\ stopped' = stopped
  BY DEF procVars, ghostVars
<1>2. Calm
  BY <1>1 DEF Calm, LiveThen, Live
<1>3. \A b \in Actors \ {a} : Stays(b)
  BY DEF Moves, Stays
<1>4. Handover({a})
  BY <1>1, <1>3 DEF Handover, LiveThen, Live
<1>5. {a} \in SUBSET Actors
  OBVIOUS
<1>6. QED
  BY <1>2, <1>4, <1>5, CalmKeeps DEF TypeInv

(* Untouched records of stops keep their types. *)
LEMMA SameGhosts ==
  ASSUME TypeOK, UNCHANGED <<pidfile, ghostVars>> PROVE GhostTypes
BY DEF TypeOK, GhostTypes, ghostVars

(* At these places a controller has nothing to answer for.                 *)
LEMMA Elsewhere ==
  ASSUME NEW a \in Actors, pc'[a] \in {"off", "idle", "task", "read"}
  PROVE  ActorOK(a)'
BY DEF ActorOK

(* The pid-file test keeps the invariant. *)
LEMMA IsRunningKeeps ==
  ASSUME TypeInv, IInv, NEW a \in Actors, IsRunning(a)
  PROVE  TypeInv' /\ IInv'
<1>1. /\ pc[a] = "task" /\ UNCHANGED <<pidfile, procVars, cfgVars, incidents, ghostVars>>
      /\ TypeOK
  BY DEF IsRunning, TypeInv
<1> DEFINE p == pidfile[Svc(a)]
<1>2. Svc(a) \in Services
  BY <1>1, TaskType
<1>3. p \in Pids \cup {NoPid}
  BY <1>1, <1>2 DEF TypeOK
<1>4. pidfile' = pidfile /\ proc' = proc
  BY <1>1 DEF procVars
<1>5. Moves(a) /\ ActorOK(a)' /\ pc'[a] # "write"
  <2>1. CASE p = NoPid
    <3>1. NotRunning(a)
      BY <2>1 DEF IsRunning
    <3>2. /\ Moves(a)
          /\ \/ pc'[a] \in {"idle", "task"}
             \/ pc'[a] = "spawn" /\ Kind(a)' = "start" /\ Svc(a)' = Svc(a)
      BY <1>1, <3>1, NotRunningMoves
    <3>3. CASE pc'[a] \in {"idle", "task"}
      BY <3>2, <3>3, Elsewhere
    <3>4. CASE pc'[a] = "spawn" /\ Kind(a)' = "start" /\ Svc(a)' = Svc(a)
      <4>1. pidfile'[Svc(a)'] = NoPid
        BY <3>4, <2>1, <1>4
      <4>2. ActorOK(a)'
        BY <4>1, <3>4 DEF ActorOK, Vacant
      <4>3. QED
        BY <4>2, <3>2, <3>4
    <3>5. QED
      BY <3>2, <3>3, <3>4
  <2>2. CASE p # NoPid /\ Signalable(p)
    <3>1. Running(a)
      BY <2>2 DEF IsRunning
    <3>2. Moves(a) /\ pc'[a] \in {"idle", "task", "read"}
      BY <1>1, <3>1, RunningMoves
    <3>3. QED
      BY <3>2, Elsewhere
  <2>3. CASE p # NoPid /\ ~Signalable(p)
    <3>1. Goto(a, "clear") /\ pid' = [pid EXCEPT ![a] = p]
      BY <2>3 DEF IsRunning
    <3>2. "clear" \in Labels \ {"off", "idle"}
      BY DEF Labels
    <3>3. Moves(a) /\ pc'[a] = "clear"
      BY <3>1, <3>2, <1>1, <1>3, GotoMoves
    <3>4. pid'[a] = p /\ p \in Pids /\ proc'[p] = "gone"
      BY <3>1, <2>3, <1>1, <1>3, <1>4 DEF TypeOK, Signalable
    <3>5. ActorOK(a)'
      BY <3>3, <3>4 DEF ActorOK
    <3>6. QED
      BY <3>3, <3>5
  <2>4. QED
    BY <2>1, <2>2, <2>3
<1>6. TypeInv'
  BY <1>1, <1>5, WorkTypes, SameProcs, SameGhosts
<1>7. QED
  BY <1>1, <1>5, <1>6, QuietKeeps DEF TypeInv

(* Seeing the process gone keeps it. *)
LEMMA GoneKeeps ==
  ASSUME TypeInv, IInv, NEW a \in Actors, Gone(a)
  PROVE  TypeInv' /\ IInv'
<1>1. /\ pc[a] = "wait" /\ ~Signalable(pid[a]) /\ Goto(a, "unpid")
      /\ UNCHANGED <<pidfile, procVars, cfgVars, pid, incidents, ghostVars>> /\ TypeOK
  BY DEF Gone, TypeInv
<1>2. pid[a] \in Pids /\ ~Live(pid[a]) /\ pid' = pid /\ proc' = proc
  BY <1>1 DEF Signalable, Live, IInv, ActorInv, ActorOK, procVars
<1>3. "unpid" \in Labels \ {"off", "idle"} /\ NoPid \in Pids \cup {NoPid}
  BY DEF Labels
<1>4. Moves(a) /\ pc'[a] = "unpid"
  BY <1>1, <1>3, GotoMoves
<1>5. ActorOK(a)'
  BY <1>2, <1>4 DEF ActorOK, Live
<1>6. TypeInv'
  BY <1>1, <1>4, WorkTypes, SameProcs, SameGhosts
<1>7. QED
  BY <1>1, <1>2, <1>4, <1>5, <1>6, QuietKeeps DEF TypeInv

(* So does giving up the wait for it. *)
LEMMA DeadlineKeeps ==
  ASSUME TypeInv, IInv, NEW a \in Actors, Deadline(a)
  PROVE  TypeInv' /\ IInv'
<1>1. /\ pc[a] = "wait" /\ Signalable(pid[a]) /\ Goto(a, "unpid")
      /\ UNCHANGED <<pidfile, cfgVars, pid, mixed, stopped>> /\ TypeOK
      /\ incidents' = incidents \/ Incident
  BY DEF Deadline, TypeInv
<1>2. pid[a] \in Pids /\ pid' = pid /\ proc[pid[a]] # "gone" /\ Svc(a) \in Services
  BY <1>1, TaskType DEF IInv, ActorInv, ActorOK, Signalable
<1>3. "unpid" \in Labels \ {"off", "idle"} /\ NoPid \in Pids \cup {NoPid}
  BY DEF Labels
<1>4. Moves(a) /\ pc'[a] = "unpid" /\ Svc(a)' = Svc(a)
  BY <1>1, <1>3, GotoMoves DEF Goto, Svc
<1>5. /\ ProcTypes
      /\ ~LiveThen(pid[a]) \/ Svc(a) \in orphaned'
      /\ orphaned \subseteq orphaned' /\ orphaned' \subseteq Services
      /\ \A q \in Pids : LiveThen(q) => Live(q) /\ service'[q] = service[q]
      /\ \A q \in Pids : proc[q] = "gone" => proc'[q] = "gone"
  <2>0. orphaned \subseteq Services
    BY <1>1 DEF TypeOK
  <2>1. CASE Exits(pid[a]) /\ orphaned' = orphaned
    <3>1. orphaned \subseteq orphaned' /\ orphaned' \subseteq Services
      BY <2>0, <2>1
    <3>2. QED
      BY <2>1, <3>1, <1>1, <1>2, ExitsEffect
  <2>2. CASE /\ UNCHANGED procVars
             /\ \/ ~Live(pid[a]) /\ orphaned' = orphaned
                \/ orphaned' = orphaned \cup {Svc(a)}
    <3>1. ProcTypes
      BY <2>2, <1>1, SameProcs
    <3>2. proc' = proc /\ service' = service
      BY <2>2 DEF procVars
    <3>3. QED
      BY <2>0, <2>2, <3>1, <3>2, <1>2 DEF LiveThen, Live
  <2>3. \/ Exits(pid[a]) /\ orphaned' = orphaned
        \/ UNCHANGED procVars /\ ~Live(pid[a]) /\ orphaned' = orphaned
        \/ UNCHANGED procVars /\ orphaned' = orphaned \cup {Svc(a)}
    BY DEF Deadline
  <2>4. QED
    BY <2>1, <2>2, <2>3
<1>6. /\ mixed' = mixed /\ stopped' = stopped /\ pidfile' = pidfile
  BY <1>1
<1>7. Calm
  BY <1>5, <1>6 DEF Calm
<1>8. ActorOK(a)'
  BY <1>2, <1>4, <1>5 DEF ActorOK, LiveThen, Live
<1>9. Handover({a})
  BY <1>1, <1>4, <1>5, <1>6, <1>8 DEF Handover, Moves, Stays
<1>10. TypeInv'
  <2>1. GhostTypes
    BY <1>1, <1>5, <1>6 DEF GhostTypes, TypeOK
  <2>2. UNCHANGED cfgVars /\ pc[a] # "off" /\ ProcTypes
    BY <1>1, <1>5
  <2>3. QED
    BY <1>1, <1>4, <2>1, <2>2, WorkTypes
<1>11. {a} \in SUBSET Actors
  OBVIOUS
<1>12. QED
  BY <1>1, <1>7, <1>9, <1>10, <1>11, CalmKeeps DEF TypeInv

(* So does clearing a stale pid file. *)
LEMMA ClearStaleKeeps ==
  ASSUME TypeInv, IInv, NEW a \in Actors, ClearStale(a)
  PROVE  TypeInv' /\ IInv'
<1>1. /\ pc[a] = "clear" /\ ClearPid(a) /\ NotRunning(a)
      /\ UNCHANGED <<procVars, cfgVars, orphaned, stopped>> /\ TypeOK
  BY DEF ClearStale, TypeInv
<1>2. pid[a] \in Pids /\ ~Live(pid[a])
  BY <1>1 DEF IInv, ActorInv, ActorOK, Live
<1>3. /\ GhostTypes /\ mixed \subseteq mixed'
      /\ \A s \in Services : pidfile'[s] \in {pidfile[s], NoPid}
      /\ \A s \in Services : pidfile'[s] # pidfile[s] =>
           \/ s \in mixed' \cup orphaned
           \/ pidfile[s] \in Pids /\ ~Live(pidfile[s])
      /\ pidfile'[Svc(a)] \in {NoPid, pidfile[Svc(a)]}
      /\ incidents' = incidents \/ Incident
  BY <1>1, <1>2, ClearEffect
<1>4. /\ Moves(a) /\ pc'[a] # "write"
      /\ \/ pc'[a] \in {"idle", "task"}
         \/ pc'[a] = "spawn" /\ Kind(a)' = "start" /\ Svc(a)' = Svc(a)
  BY <1>1, NotRunningMoves
<1>5. ActorOK(a)'
  <2>1. CASE pc'[a] \in {"idle", "task"}
    BY <2>1, Elsewhere
  <2>2. CASE pc'[a] = "spawn" /\ Kind(a)' = "start" /\ Svc(a)' = Svc(a)
    <3>1. Svc(a) \in mixed' \/ pidfile'[Svc(a)] = NoPid \/ proc'[pidfile'[Svc(a)]] = "gone"
      <4>1. CASE pidfile[Svc(a)] = NoPid
        BY <4>1, <1>3
      <4>2. CASE pidfile[Svc(a)] = pid[a]
        BY <4>2, <1>1, <1>3 DEF IInv, ActorInv, ActorOK, procVars
      <4>3. CASE pidfile[Svc(a)] \notin {NoPid, pid[a]}
        BY <4>3, <1>1 DEF ClearPid
      <4>4. QED
        BY <4>1, <4>2, <4>3
    <3>2. QED
      BY <2>2, <3>1 DEF ActorOK, Vacant
  <2>3. QED
    BY <1>4, <2>1, <2>2
<1>6. proc' = proc /\ service' = service /\ orphaned' = orphaned /\ stopped' = stopped
  BY <1>1 DEF procVars
<1>7. Calm
  BY <1>3, <1>6 DEF Calm, LiveThen, Live
<1>8. Handover({a})
  BY <1>1, <1>3, <1>4, <1>5, <1>6 DEF Handover, Moves, Stays, LiveThen, Live
<1>9. TypeInv'
  BY <1>1, <1>3, <1>4, WorkTypes, SameProcs
<1>10. {a} \in SUBSET Actors
  OBVIOUS
<1>11. QED
  BY <1>1, <1>7, <1>8, <1>9, <1>10, CalmKeeps DEF TypeInv

(* So does removing the pid file after a stop. *)
LEMMA UnpidKeeps ==
  ASSUME TypeInv, IInv, NEW a \in Actors, Unpid(a)
  PROVE  TypeInv' /\ IInv'
<1>1. /\ pc[a] = "unpid" /\ ClearPid(a) /\ Done(a)
      /\ UNCHANGED <<procVars, cfgVars, orphaned, stopped>> /\ TypeOK
  BY DEF Unpid, TypeInv
<1>2. pid[a] \in Pids /\ (~Live(pid[a]) \/ Svc(a) \in orphaned)
  BY <1>1 DEF IInv, ActorInv, ActorOK, Live
<1>3. /\ GhostTypes /\ mixed \subseteq mixed'
      /\ \A s \in Services : pidfile'[s] \in {pidfile[s], NoPid}
      /\ \A s \in Services : pidfile'[s] # pidfile[s] =>
           \/ s \in mixed' \cup orphaned
           \/ pidfile[s] \in Pids /\ ~Live(pidfile[s])
      /\ pidfile'[Svc(a)] \in {NoPid, pidfile[Svc(a)]}
      /\ incidents' = incidents \/ Incident
  BY <1>1, <1>2, ClearEffect
<1>4. Moves(a) /\ pc'[a] # "write" /\ pc'[a] \in {"idle", "task"}
  BY <1>1, DoneMoves
<1>5. ActorOK(a)'
  BY <1>4, Elsewhere
<1>6. proc' = proc /\ service' = service /\ orphaned' = orphaned /\ stopped' = stopped
  BY <1>1 DEF procVars
<1>7. Calm
  BY <1>3, <1>6 DEF Calm, LiveThen, Live
<1>8. Handover({a})
  BY <1>1, <1>3, <1>4, <1>5, <1>6 DEF Handover, Moves, Stays, LiveThen, Live
<1>9. TypeInv'
  BY <1>1, <1>3, <1>4, WorkTypes, SameProcs
<1>10. {a} \in SUBSET Actors
  OBVIOUS
<1>11. QED
  BY <1>1, <1>7, <1>8, <1>9, <1>10, CalmKeeps DEF TypeInv

(* A controller that ends: what it has started and not written is known to *)
(* be orphaned, and what it waited for is no longer called stopped.        *)
LEMMA LeaveKeeps ==
  ASSUME TypeInv, IInv, NEW a \in Actors, Leave(a),
         UNCHANGED <<pidfile, mode, mixed>>, incidents' \in 0 .. MaxIncidents,
         orphaned \subseteq orphaned', orphaned' \subseteq Services, stopped' \subseteq stopped,
         pc[a] = "write" => Svc(a) \in orphaned',
         pc[a] = "wait" => Svc(a) \notin stopped'
  PROVE  TypeInv' /\ IInv'
<1>1. /\ pc'[a] = "off" /\ \A b \in Actors \ {a} : Stays(b)
      /\ pc' \in [Actors -> Labels] /\ todo' \in [Actors -> Seq(Tasks)]
      /\ pid' \in [Actors -> Pids \cup {NoPid}]
      /\ \A b \in Actors : pc'[b] \in {"off", "idle"} <=> todo'[b] = <<>>
      /\ run' \in {"off", "on", "stopping", "leaving"} /\ last' \in Modes \cup {"none"}
      /\ run' = "off" <=> pc'[Runner] = "off"
  BY LeaveMoves
<1>2. /\ ProcTypes
      /\ \A q \in Pids : LiveThen(q) => Live(q) /\ service'[q] = service[q]
      /\ \A q \in Pids : proc[q] = "gone" => proc'[q] = "gone"
  BY DisownEffect DEF Leave, TypeInv
<1>3. TypeOK'
  BY <1>1, <1>2 DEF TypeInv, TypeOK, ProcTypes
<1>4. TypeInv'
  BY <1>1, <1>3 DEF TypeInv
<1>5. Calm
  BY <1>2 DEF Calm
<1>6. ActorOK(a)'
  BY <1>1, Elsewhere
<1>7. Handover({a})
  BY <1>1, <1>6 DEF Handover
<1>8. {a} \in SUBSET Actors
  OBVIOUS
<1>9. QED
  BY <1>3, <1>4, <1>5, <1>7, <1>8, CalmKeeps DEF TypeInv

(* So does an actor's end. *)
LEMMA EndKeeps ==
  ASSUME TypeInv, IInv, NEW a \in Actors, pc[a] = "idle", Leave(a),
         UNCHANGED <<pidfile, mode, incidents, ghostVars>>
  PROVE  TypeInv' /\ IInv'
<1>1. mixed' = mixed /\ orphaned' = orphaned /\ stopped' = stopped
  BY DEF ghostVars
<1>2. orphaned \subseteq Services /\ incidents \in 0 .. MaxIncidents
  BY DEF TypeInv, TypeOK
<1>3. QED
  BY <1>1, <1>2, LeaveKeeps

(* So does killing an actor between any two steps. *)
LEMMA KillActorKeeps ==
  ASSUME TypeInv, IInv, NEW a \in Actors, KillActor(a)
  PROVE  TypeInv' /\ IInv'
<1>1. /\ pc[a] # "off" /\ Leave(a) /\ UNCHANGED <<pidfile, mode, mixed>>
      /\ incidents < MaxIncidents /\ incidents' = incidents + 1
      /\ orphaned' = IF pc[a] = "write" THEN orphaned \cup {Svc(a)} ELSE orphaned
      /\ stopped' = IF pc[a] = "wait" THEN stopped \ {Svc(a)} ELSE stopped
  BY DEF KillActor, Incident
<1>2. incidents' \in 0 .. MaxIncidents
  BY <1>1, SupervisionAssumption DEF TypeInv, TypeOK
<1>3. pc[a] = "write" => Svc(a) \in Services
  BY TaskType DEF TypeInv
<1>4. orphaned \subseteq Services
  BY DEF TypeInv, TypeOK
<1>5. /\ orphaned \subseteq orphaned' /\ orphaned' \subseteq Services
      /\ stopped' \subseteq stopped
      /\ pc[a] = "write" => Svc(a) \in orphaned'
      /\ pc[a] = "wait" => Svc(a) \notin stopped'
  BY <1>1, <1>3, <1>4
<1>6. QED
  BY <1>1, <1>2, <1>5, LeaveKeeps

(* Work handed to a controller, or the runner started.                     *)
LEMMA BeginKeeps ==
  ASSUME TypeInv, IInv, NEW a \in Actors, pc[a] \in {"off", "idle"}, Moves(a),
         pc'[a] \in {"idle", "task"},
         UNCHANGED <<pidfile, procVars, mode, ghostVars>>,
         incidents' \in 0 .. MaxIncidents,
         run' \in {"off", "on", "stopping", "leaving"}, last' \in Modes \cup {"none"},
         run' = "off" <=> pc'[Runner] = "off"
  PROVE  TypeInv' /\ IInv'
<1>1. TypeOK
  BY DEF TypeInv
<1>2. ProcTypes /\ GhostTypes
  BY <1>1, SameProcs, SameGhosts
<1>3. TypeOK'
  BY <1>1, <1>2 DEF TypeOK, Moves, ProcTypes, GhostTypes
<1>4. TypeInv'
  BY <1>3 DEF TypeInv
<1>5. ActorOK(a)'
  BY Elsewhere
<1>6. QED
  BY <1>3, <1>4, <1>5, QuietKeeps

(* So does the runner's next pass. *)
LEMMA BeginPassKeeps == ASSUME TypeInv, IInv, BeginPass PROVE TypeInv' /\ IInv'
<1>1. /\ pc[Runner] = "idle" /\ run = "on" /\ mode # Invalid /\ last' = mode
      /\ UNCHANGED <<pidfile, procVars, mode, run, pid, incidents, ghostVars>>
      /\ Follow(Runner, ApplyState(mode, last # "none" /\ last # mode))
      /\ TypeOK
  BY DEF BeginPass, TypeInv
<1>2. Runner \in Actors /\ NoPid \in Pids \cup {NoPid}
  BY DEF Actors
<1>3. ApplyState(mode, last # "none" /\ last # mode) \in Seq(Tasks)
  BY ListsType
<1>4. Moves(Runner) /\ pc'[Runner] \in {"idle", "task"}
  BY <1>1, <1>2, <1>3, FollowMoves
<1>5. /\ incidents' \in 0 .. MaxIncidents /\ run' = "on" /\ last' \in Modes \cup {"none"}
  BY <1>1 DEF TypeOK
<1>6. QED
  BY <1>1, <1>2, <1>4, <1>5, BeginKeeps

(* So does the runner's shutdown. *)
LEMMA BeginShutdownKeeps == ASSUME TypeInv, IInv, BeginShutdown PROVE TypeInv' /\ IInv'
<1>1. /\ pc[Runner] = "idle" /\ run' = "leaving"
      /\ UNCHANGED <<pidfile, procVars, mode, last, pid, incidents, ghostVars>>
      /\ Follow(Runner, Each("stopif", Services))
      /\ TypeOK
  BY DEF BeginShutdown, TypeInv
<1>2. Runner \in Actors /\ NoPid \in Pids \cup {NoPid} /\ "stopif" \in Kinds
  BY DEF Actors, Kinds
<1>3. Each("stopif", Services) \in Seq(Tasks)
  BY <1>2, EachType
<1>4. Moves(Runner) /\ pc'[Runner] \in {"idle", "task"}
  BY <1>1, <1>2, <1>3, FollowMoves
<1>5. incidents' \in 0 .. MaxIncidents /\ last' \in Modes \cup {"none"}
  BY <1>1 DEF TypeOK
<1>6. QED
  BY <1>1, <1>2, <1>4, <1>5, BeginKeeps

(* So does launching a command. *)
LEMMA LaunchKeeps ==
  ASSUME TypeInv, IInv, NEW a \in Scripts, Launch(a) PROVE TypeInv' /\ IInv'
<1>1. PICK tasks \in Commands : Follow(a, tasks)
  BY DEF Launch
<1>2. /\ pc[a] = "off" /\ incidents < MaxIncidents /\ incidents' = incidents + 1
      /\ UNCHANGED <<pidfile, procVars, mode, last, run, pid, ghostVars>>
      /\ TypeOK
  BY DEF Launch, Incident, cfgVars, TypeInv
<1>3. a \in Actors /\ a # Runner /\ Runner \in Actors /\ NoPid \in Pids \cup {NoPid}
  BY SupervisionAssumption DEF Actors
<1>4. Moves(a) /\ pc'[a] \in {"idle", "task"}
  BY <1>1, <1>2, <1>3, FollowMoves, ListsType
<1>5. incidents' \in 0 .. MaxIncidents
  BY <1>2, SupervisionAssumption DEF TypeOK
<1>6. /\ run' \in {"off", "on", "stopping", "leaving"} /\ last' \in Modes \cup {"none"}
      /\ run' = "off" <=> pc'[Runner] = "off"
  BY <1>2, <1>3, <1>4 DEF TypeInv, TypeOK, Moves
<1>7. QED
  BY <1>2, <1>3, <1>4, <1>5, <1>6, BeginKeeps

(* So does starting the runner. *)
LEMMA StartRunnerKeeps == ASSUME TypeInv, IInv, StartRunner PROVE TypeInv' /\ IInv'
<1>1. /\ run = "off" /\ run' = "on" /\ incidents < MaxIncidents /\ incidents' = incidents + 1
      /\ pc' = [pc EXCEPT ![Runner] = "idle"]
      /\ UNCHANGED <<pidfile, procVars, mode, last, todo, pid, ghostVars>>
      /\ TypeOK
  BY DEF StartRunner, Incident, TypeInv
<1>2. Runner \in Actors /\ pc[Runner] = "off"
  BY <1>1 DEF Actors, TypeInv
<1>3. pc' \in [Actors -> Labels] /\ pc'[Runner] = "idle"
  BY <1>1, <1>2 DEF TypeOK, Labels
<1>4. Moves(Runner)
  BY <1>1, <1>2, <1>3 DEF TypeOK, Moves
<1>5. incidents' \in 0 .. MaxIncidents /\ last' \in Modes \cup {"none"}
  BY <1>1, SupervisionAssumption DEF TypeOK
<1>6. QED
  BY <1>1, <1>2, <1>3, <1>4, <1>5, BeginKeeps

(* The configuration, a signal, the death of a process: no controller      *)
(* moves.                                                                  *)
LEMMA StillKeeps ==
  ASSUME TypeInv, IInv, ProcTypes, UNCHANGED <<pidfile, actorVars, ghostVars, last>>,
         \A q \in Pids : LiveThen(q) => Live(q) /\ service'[q] = service[q],
         \A q \in Pids : proc[q] = "gone" => proc'[q] = "gone",
         mode' \in Modes \cup {Invalid}, incidents' \in 0 .. MaxIncidents,
         run' \in {"off", "on", "stopping", "leaving"}, run' = "off" <=> run = "off"
  PROVE  TypeInv' /\ IInv'
<1>1. /\ pidfile' = pidfile /\ pc' = pc /\ todo' = todo /\ pid' = pid /\ last' = last
      /\ mixed' = mixed /\ orphaned' = orphaned /\ stopped' = stopped
  BY DEF actorVars, ghostVars
<1>2. TypeOK'
  BY <1>1 DEF TypeInv, TypeOK, ProcTypes
<1>3. TypeInv'
  BY <1>1, <1>2 DEF TypeInv
<1>4. Calm
  BY <1>1 DEF Calm
<1>5. Handover({})
  BY <1>1 DEF Handover, Stays
<1>6. {} \in SUBSET Actors
  OBVIOUS
<1>7. QED
  BY <1>2, <1>3, <1>4, <1>5, <1>6, CalmKeeps DEF TypeInv

(* Untouched processes are as alive as they were. *)
LEMMA SameProcsLive ==
  ASSUME TypeOK, UNCHANGED procVars
  PROVE  /\ ProcTypes
         /\ \A q \in Pids : LiveThen(q) => Live(q) /\ service'[q] = service[q]
         /\ \A q \in Pids : proc[q] = "gone" => proc'[q] = "gone"
<1>1. proc' = proc /\ service' = service
  BY DEF procVars
<1>2. QED
  BY <1>1, SameProcs DEF LiveThen, Live

(* So does the signal that stops the runner. *)
LEMMA SignalRunnerKeeps == ASSUME TypeInv, IInv, SignalRunner PROVE TypeInv' /\ IInv'
<1>1. /\ run = "on" /\ run' = "stopping" /\ incidents < MaxIncidents
      /\ incidents' = incidents + 1 /\ mode' = mode
      /\ UNCHANGED <<pidfile, actorVars, ghostVars, last>> /\ UNCHANGED procVars /\ TypeOK
  BY DEF SignalRunner, Incident, TypeInv
<1>2. incidents' \in 0 .. MaxIncidents /\ mode' \in Modes \cup {Invalid}
  BY <1>1, SupervisionAssumption DEF TypeOK
<1>3. QED
  BY <1>1, <1>2, SameProcsLive, StillKeeps

(* So does an edit of the settings. *)
LEMMA EditConfigKeeps ==
  ASSUME TypeInv, IInv, NEW m \in Modes \cup {Invalid}, EditConfig(m) PROVE TypeInv' /\ IInv'
<1>1. /\ mode' = m /\ incidents < MaxIncidents /\ incidents' = incidents + 1 /\ run' = run
      /\ UNCHANGED <<pidfile, actorVars, ghostVars, last>> /\ UNCHANGED procVars /\ TypeOK
  BY DEF EditConfig, Incident, TypeInv
<1>2. incidents' \in 0 .. MaxIncidents /\ run' \in {"off", "on", "stopping", "leaving"}
  BY <1>1, SupervisionAssumption DEF TypeOK
<1>3. QED
  BY <1>1, <1>2, SameProcsLive, StillKeeps

(* So does the end of a service's process. *)
LEMMA ProcessKeeps ==
  ASSUME TypeInv, IInv, NEW p \in Pids, CrashService(p) \/ Obey(p) PROVE TypeInv' /\ IInv'
<1>1. /\ proc[p] # "gone" /\ Exits(p) /\ mode' = mode /\ run' = run
      /\ UNCHANGED <<pidfile, actorVars, ghostVars, last>> /\ TypeOK
  BY DEF CrashService, Obey, cfgVars, TypeInv
<1>2. incidents' = incidents \/ (incidents < MaxIncidents /\ incidents' = incidents + 1)
  BY DEF CrashService, Obey, Incident
<1>3. /\ incidents' \in 0 .. MaxIncidents /\ run' \in {"off", "on", "stopping", "leaving"}
      /\ mode' \in Modes \cup {Invalid}
  BY <1>1, <1>2, SupervisionAssumption DEF TypeOK
<1>4. /\ ProcTypes
      /\ \A q \in Pids : LiveThen(q) => Live(q) /\ service'[q] = service[q]
      /\ \A q \in Pids : proc[q] = "gone" => proc'[q] = "gone"
  BY <1>1, ExitsEffect
<1>5. QED
  BY <1>1, <1>3, <1>4, StillKeeps

-----------------------------------------------------------------------------
(* stop_process reads the file. What it does not find there is not running *)
(* or is about to be written, and then the race is known.                  *)
LEMMA ReadPidKeeps ==
  ASSUME TypeInv, IInv, NEW a \in Actors, ReadPid(a)
  PROVE  TypeInv' /\ IInv'
<1>1. /\ pc[a] \in {"read", "task"} /\ stopped' = stopped \cup {Svc(a)}
      /\ UNCHANGED <<pidfile, service, parent, orphaned>> /\ UNCHANGED <<cfgVars, incidents>>
      /\ TypeOK
  BY DEF ReadPid, TypeInv
<1> DEFINE p == pidfile[Svc(a)]
           s == Svc(a)
<1>2. s \in Services
  BY <1>1, TaskType
<1>3. p \in Pids \cup {NoPid}
  BY <1>1, <1>2 DEF TypeOK
<1>4. NoPid \notin Pids
  BY SupervisionAssumption DEF NoPid, Pids
<1>5. /\ Moves(a) /\ ActorOK(a)' /\ pc'[a] # "write" /\ ProcTypes /\ GhostTypes /\ Calm
      /\ \A q \in Pids : LiveThen(q) /\ service'[q] = s /\ s \notin mixed' \cup orphaned' =>
           \E b \in Actors : pc'[b] = "wait" /\ Svc(b)' = s /\ pid'[b] = q
  <2>1. CASE p = NoPid
    <3>1. /\ Done(a) /\ proc' = proc
          /\ mixed' = IF Starting(a, {"write"}) THEN mixed \cup {s} ELSE mixed
      BY <2>1 DEF ReadPid
    <3>2. Moves(a) /\ pc'[a] \in {"idle", "task"}
      BY <1>1, <3>1, DoneMoves
    <3>3. ActorOK(a)'
      BY <3>2, Elsewhere
    <3>4. ProcTypes /\ GhostTypes
      BY <1>1, <1>2, <3>1 DEF TypeOK, ProcTypes, GhostTypes
    <3>5. Calm
      BY <1>1, <3>1 DEF Calm, LiveThen, Live
    <3>6. ASSUME NEW q \in Pids, LiveThen(q), service'[q] = s, s \notin mixed' \cup orphaned'
          PROVE  FALSE
      <4>1. Live(q) /\ service[q] = s /\ s \notin mixed \cup orphaned
        BY <3>6, <3>5 DEF Calm
      <4>2. PICK b \in Actors : pid[b] = q /\ pc[b] = "write"
        BY <4>1, <2>1, <1>4 DEF IInv, Tracked
      <4>3. Svc(b) = s /\ Kind(b) = "start" /\ b # a
        BY <4>1, <4>2, <1>1 DEF IInv, ActorInv, ActorOK
      <4>4. Starting(a, {"write"})
        BY <4>2, <4>3 DEF Starting
      <4>5. QED
        BY <4>4, <3>1, <3>6
    <3>7. QED
      BY <3>2, <3>3, <3>4, <3>5, <3>6
  <2>2. CASE p # NoPid
    <3>1. /\ proc' = [proc EXCEPT ![p] = IF proc[p] = "alive" THEN "terming" ELSE proc[p]]
          /\ pid' = [pid EXCEPT ![a] = p] /\ Goto(a, "wait")
          /\ mixed' = IF Starting(a, {"write"}) THEN mixed \cup {s} ELSE mixed
      BY <2>2 DEF ReadPid
    <3>2. "wait" \in Labels \ {"off", "idle"} /\ p \in Pids
      BY <2>2, <1>3 DEF Labels
    <3>3. Moves(a) /\ pc'[a] = "wait" /\ Svc(a)' = s
      BY <1>1, <3>1, <3>2, GotoMoves
    <3>4. pid'[a] = p
      BY <3>1, <1>1 DEF TypeOK
    <3>5. ActorOK(a)'
      BY <3>2, <3>3, <3>4 DEF ActorOK
    <3>6. ProcTypes /\ GhostTypes
      BY <1>1, <1>2, <3>1, <3>2 DEF TypeOK, ProcTypes, GhostTypes
    <3>7. \A q \in Pids : /\ LiveThen(q) => Live(q)
                          /\ proc[q] = "gone" => proc'[q] = "gone"
      BY <3>1, <3>2, <1>1 DEF TypeOK, LiveThen, Live
    <3>8. Calm
      BY <1>1, <3>1, <3>7 DEF Calm
    <3>9. ASSUME NEW q \in Pids, LiveThen(q), service'[q] = s, s \notin mixed' \cup orphaned'
          PROVE  q = p
      <4>1. Live(q) /\ service[q] = s /\ s \notin mixed \cup orphaned
        BY <3>9, <3>8 DEF Calm
      <4>2. ASSUME NEW b \in Actors, pid[b] = q, pc[b] = "write" PROVE FALSE
        <5>1. Svc(b) = s /\ Kind(b) = "start" /\ b # a
          BY <4>1, <4>2, <1>1 DEF IInv, ActorInv, ActorOK
        <5>2. Starting(a, {"write"})
          BY <4>2, <5>1 DEF Starting
        <5>3. QED
          BY <5>2, <3>1, <3>9
      <4>3. QED
        BY <4>1, <4>2 DEF IInv, Tracked
    <3>10. QED
      BY <3>3, <3>4, <3>5, <3>6, <3>8, <3>9
  <2>3. QED
    BY <2>1, <2>2
<1>6. Handover({a})
  BY <1>1, <1>5 DEF Handover, Moves, Stays
<1>7. TypeInv'
  BY <1>1, <1>5, WorkTypes
<1>8. {a} \in SUBSET Actors
  OBVIOUS
<1>9. QED
  BY <1>1, <1>5, <1>6, <1>7, <1>8, CalmKeeps DEF TypeInv

(* _write_pid: the file was free, or somebody else was starting too.       *)
LEMMA WritePidKeeps ==
  ASSUME TypeInv, IInv, NEW a \in Actors, WritePid(a)
  PROVE  TypeInv' /\ IInv'
<1> DEFINE s == Svc(a)
<1>1. /\ pc[a] = "write" /\ pidfile' = [pidfile EXCEPT ![s] = pid[a]] /\ Done(a)
      /\ mixed' = IF Starting(a, {"clear", "spawn"}) THEN mixed \cup {s} ELSE mixed
      /\ UNCHANGED procVars /\ UNCHANGED <<cfgVars, incidents>>
      /\ orphaned' = orphaned /\ stopped' = stopped /\ TypeOK
  BY DEF WritePid, TypeInv
<1>2. s \in Services /\ pid[a] \in Pids
  BY <1>1, TaskType DEF IInv, ActorInv, ActorOK
<1>3. Moves(a) /\ pc'[a] \in {"idle", "task"}
  BY <1>1, DoneMoves
<1>4. \A b \in Actors \ {a} : Stays(b)
  BY <1>3 DEF Moves, Stays
<1>5. GhostTypes
  BY <1>1, <1>2 DEF TypeOK, GhostTypes
<1>6. TypeInv'
  BY <1>1, <1>3, <1>5, WorkTypes, SameProcs
<1>7. /\ pidfile'[s] = pid[a] /\ \A r \in Services : r # s => pidfile'[r] = pidfile[r]
      /\ mixed \subseteq mixed' /\ proc' = proc /\ service' = service
  BY <1>1, <1>2 DEF TypeOK, procVars
<1>8. NoPid \notin Pids
  BY SupervisionAssumption DEF NoPid, Pids
<1>9. ActorInv'
  <2>1. ASSUME NEW b \in Actors, b # a PROVE ActorOK(b)'
    <3>1. Kind(b)' = Kind(b) /\ Svc(b)' = Svc(b) /\ pc'[b] = pc[b] /\ pid'[b] = pid[b]
      BY <2>1, <1>4, StaysSame DEF Stays
    <3>2. ActorOK(b)
      BY DEF IInv, ActorInv
    <3>3. ASSUME pc[b] \in {"spawn", "write"}
          PROVE  /\ Kind(b) = "start"
                 /\ \/ Svc(b) \in mixed' \/ pidfile'[Svc(b)] = NoPid
                    \/ proc'[pidfile'[Svc(b)]] = "gone"
      <4>1. Kind(b) = "start" /\ (Svc(b) \in mixed \/ Vacant(Svc(b)))
        BY <3>2, <3>3 DEF ActorOK
      <4>2. CASE Svc(b) # s
        <5>1. Svc(b) \in Services
          BY <3>3, <1>1, TaskType
        <5>2. QED
          BY <5>1, <4>1, <4>2, <1>7 DEF Vacant
      <4>3. CASE Svc(b) = s /\ pc[b] = "write"
        <5>1. s \in mixed
          BY <4>3, <2>1, <1>1 DEF IInv, PairInv
        <5>2. QED
          BY <5>1, <4>1, <4>3, <1>7
      <4>4. CASE Svc(b) = s /\ pc[b] = "spawn"
        <5>1. Starting(a, {"clear", "spawn"})
          BY <4>1, <4>4, <2>1 DEF Starting
        <5>2. QED
          BY <5>1, <4>1, <4>4, <1>1
      <4>5. QED
        BY <4>2, <4>3, <4>4, <3>3
    <3>4. QED
      BY <3>1, <3>2, <3>3, <1>1, <1>7 DEF ActorOK, Vacant, Live
  <2>2. ActorOK(a)'
    BY <1>3, Elsewhere
  <2>3. QED
    BY <2>1, <2>2 DEF ActorInv
<1>10. PairInv'
  <2>1. ASSUME NEW b \in Actors, NEW c \in Actors,
               b # c, pc'[b] = "write", pc'[c] = "write", Svc(b)' = Svc(c)'
        PROVE  Svc(b)' \in mixed'
    <3>1. Stays(b) /\ Stays(c)
      BY <2>1, <1>3, <1>4
    <3>2. pc[b] = "write" /\ pc[c] = "write" /\ Svc(b) = Svc(c) /\ Svc(b)' = Svc(b)
      BY <3>1, <2>1, StaysSame DEF Stays
    <3>3. Svc(b) \in mixed
      BY <3>2, <2>1 DEF IInv, PairInv
    <3>4. QED
      BY <3>2, <3>3, <1>7
  <2>2. QED
    BY <2>1 DEF PairInv
<1>11. Tracked'
  <2>1. ASSUME NEW p \in Pids, Live(p)
        PROVE  \/ pidfile'[service[p]] = p
               \/ \E b \in Actors : pid'[b] = p /\ pc'[b] = "write"
               \/ service[p] \in mixed' \cup orphaned'
    <3>1. service[p] \in Services
      BY <2>1 DEF IInv, ServiceInv
    <3>2. CASE pidfile[service[p]] = p
      <4>1. CASE service[p] # s
        BY <3>1, <3>2, <4>1, <1>7
      <4>2. CASE service[p] = s
        <5>1. ~Vacant(s)
          BY <2>1, <3>2, <4>2, <1>8 DEF Vacant, Live
        <5>2. s \in mixed
          BY <5>1, <1>1 DEF IInv, ActorInv, ActorOK
        <5>3. QED
          BY <5>2, <4>2, <1>7
      <4>3. QED
        BY <4>1, <4>2
    <3>3. ASSUME NEW b \in Actors, pid[b] = p, pc[b] = "write"
          PROVE  \/ pidfile'[service[p]] = p
                 \/ pid'[b] = p /\ pc'[b] = "write"
      <4>1. CASE b = a
        <5>1. service[p] = s
          BY <4>1, <3>3, <2>1 DEF IInv, ActorInv, ActorOK
        <5>2. QED
          BY <5>1, <4>1, <3>3, <1>7
      <4>2. CASE b # a
        BY <4>2, <3>3, <1>4 DEF Stays
      <4>3. QED
        BY <4>1, <4>2
    <3>4. CASE service[p] \in mixed \cup orphaned
      BY <3>4, <1>1, <1>7
    <3>5. QED
      BY <2>1, <3>2, <3>3, <3>4 DEF IInv, Tracked
  <2>2. QED
    BY <2>1, <1>7 DEF Tracked, Live
<1>12. StopInv'
  <2>1. ASSUME NEW r \in stopped \ (mixed' \cup orphaned), NEW p \in LiveOf(r)
        PROVE  \E b \in Actors : pc'[b] = "wait" /\ Svc(b)' = r /\ pid'[b] = p
    <3>1. PICK b \in Actors : pc[b] = "wait" /\ Svc(b) = r /\ pid[b] = p
      BY <2>1, <1>7 DEF IInv, StopInv
    <3>2. Stays(b)
      BY <3>1, <1>1, <1>4
    <3>3. QED
      BY <3>1, <3>2, StaysSame DEF Stays
  <2>2. QED
    BY <2>1, <1>1, <1>7 DEF StopInv, LiveOf, Live
<1>13. ServiceInv'
  BY <1>7 DEF IInv, ServiceInv, Live
<1>14. QED
  BY <1>6, <1>9, <1>10, <1>11, <1>12, <1>13 DEF IInv

(* Popen: the new pid is one that nobody remembers.                        *)
LEMMA SpawnKeeps ==
  ASSUME TypeInv, IInv, NEW a \in Actors, Spawn(a)
  PROVE  TypeInv' /\ IInv'
<1> DEFINE s == Svc(a)
<1>1. /\ pc[a] = "spawn" /\ stopped' = stopped \ {s} /\ Goto(a, "write")
      /\ mixed' = IF Starting(a, {"clear", "spawn", "write"}) THEN mixed \cup {s} ELSE mixed
      /\ pidfile' = pidfile /\ orphaned' = orphaned /\ UNCHANGED <<cfgVars, incidents>>
      /\ TypeOK
  BY DEF Spawn, TypeInv
<1>2. PICK q \in Pids :
        /\ Fresh(q)
        /\ proc' = [p \in Pids |-> IF p = q THEN "alive"
                                   ELSE IF parent[p] = a /\ proc[p] = "zombie"
                                   THEN "gone" ELSE proc[p]]
        /\ service' = [p \in Pids |-> IF p = q THEN Svc(a)
                                      ELSE IF proc'[p] = "gone" THEN "none" ELSE service[p]]
        /\ parent' = [p \in Pids |-> IF p = q THEN a
                                     ELSE IF proc'[p] = "gone" THEN "init" ELSE parent[p]]
        /\ pid' = [pid EXCEPT ![a] = q]
  BY DEF Spawn
<1>3. s \in Services /\ Kind(a) = "start" /\ (s \in mixed \/ Vacant(s))
  BY <1>1, TaskType DEF IInv, ActorInv, ActorOK
<1>4. "write" \in Labels \ {"off", "idle"}
  BY DEF Labels
<1>5. Moves(a) /\ pc'[a] = "write" /\ Svc(a)' = s /\ Kind(a)' = "start"
  BY <1>1, <1>2, <1>3, <1>4, GotoMoves
<1>6. \A b \in Actors \ {a} : Stays(b)
  BY <1>5 DEF Moves, Stays
<1>7. pid'[a] = q
  BY <1>1, <1>2 DEF TypeOK
<1>8. ProcTypes
  BY <1>1, <1>2, <1>3 DEF TypeOK, ProcTypes
<1>9. GhostTypes
  BY <1>1, <1>3 DEF TypeOK, GhostTypes
<1>10. TypeInv'
  BY <1>1, <1>5, <1>8, <1>9, WorkTypes
<1>11. /\ \A p \in Pids \ {q} : LiveThen(p) => Live(p) /\ service'[p] = service[p]
       /\ \A p \in Pids \ {q} : proc[p] = "gone" => proc'[p] = "gone"
       /\ service'[q] = s /\ mixed \subseteq mixed'
  BY <1>1, <1>2 DEF LiveThen, Live
<1>12. \A b \in Actors : pid[b] # q
  BY <1>2 DEF Fresh
<1>20. ASSUME NEW r \in Services, Vacant(r)
       PROVE  pidfile'[r] = NoPid \/ proc'[pidfile'[r]] = "gone"
  <2>1. pidfile[r] \in Pids \cup {NoPid} /\ pidfile[r] # q /\ pidfile' = pidfile
    BY <1>1, <1>2 DEF TypeOK, Fresh
  <2>2. QED
    BY <1>11, <1>20, <2>1 DEF Vacant
<1>13. ActorInv'
  <2>1. ASSUME NEW b \in Actors, b # a PROVE ActorOK(b)'
    <3>1. Kind(b)' = Kind(b) /\ Svc(b)' = Svc(b) /\ pc'[b] = pc[b] /\ pid'[b] = pid[b]
      BY <2>1, <1>6, StaysSame DEF Stays
    <3>2. ActorOK(b) /\ pid[b] # q
      BY <1>12 DEF IInv, ActorInv
    <3>3. pc[b] \in {"clear", "write", "wait", "unpid"} => pid[b] \in Pids \ {q}
      BY <3>2 DEF ActorOK
    <3>5. pc[b] \in {"spawn", "write"} => Svc(b) \in Services
      BY <1>1, TaskType
    <3>6. pc[b] \in {"spawn", "write"} => Svc(b) \in mixed' \/ pidfile'[Svc(b)] = NoPid
                                                \/ proc'[pidfile'[Svc(b)]] = "gone"
      BY <3>2, <3>5, <1>11, <1>20 DEF ActorOK
    <3>4. QED
      BY <3>1, <3>2, <3>3, <3>6, <1>1, <1>11 DEF ActorOK, Vacant, Live, LiveThen
  <2>2. ActorOK(a)'
    BY <1>1, <1>3, <1>5, <1>7, <1>11, <1>20 DEF ActorOK, Vacant
  <2>3. QED
    BY <2>1, <2>2 DEF ActorInv
<1>14. ASSUME NEW b \in Actors, b # a, pc'[b] = "write"
       PROVE  /\ pc[b] = "write" /\ Svc(b)' = Svc(b)
              /\ Svc(b) = s => s \in mixed'
  <2>1. pc[b] = "write" /\ Svc(b)' = Svc(b)
    BY <1>14, <1>6, StaysSame DEF Stays
  <2>2. Kind(b) = "start"
    BY <2>1 DEF IInv, ActorInv, ActorOK
  <2>3. Svc(b) = s => Starting(a, {"clear", "spawn", "write"})
    BY <2>1, <2>2, <1>14 DEF Starting
  <2>4. QED
    BY <2>1, <2>3, <1>1
<1>15. PairInv'
  <2>1. ASSUME NEW b \in Actors, NEW c \in Actors,
               b # c, pc'[b] = "write", pc'[c] = "write", Svc(b)' = Svc(c)'
        PROVE  Svc(b)' \in mixed'
    <3>1. CASE b = a
      BY <3>1, <2>1, <1>5, <1>14
    <3>2. CASE c = a
      BY <3>2, <2>1, <1>5, <1>14
    <3>3. CASE b # a /\ c # a
      <4>1. pc[b] = "write" /\ pc[c] = "write" /\ Svc(b) = Svc(c) /\ Svc(b)' = Svc(b)
        BY <3>3, <2>1, <1>14
      <4>2. Svc(b) \in mixed
        BY <4>1, <2>1 DEF IInv, PairInv
      <4>3. QED
        BY <4>1, <4>2, <1>11
    <3>4. QED
      BY <3>1, <3>2, <3>3
  <2>2. QED
    BY <2>1 DEF PairInv
<1>16. Tracked'
  <2>1. ASSUME NEW p \in Pids, LiveThen(p)
        PROVE  \/ pidfile'[service'[p]] = p
               \/ \E b \in Actors : pid'[b] = p /\ pc'[b] = "write"
               \/ service'[p] \in mixed' \cup orphaned'
    <3>1. CASE p = q
      BY <3>1, <1>5, <1>7
    <3>2. CASE p # q
      <4>1. Live(p) /\ service'[p] = service[p]
        BY <3>2, <2>1, <1>11
      <4>2. \/ pidfile[service[p]] = p
            \/ \E b \in Actors : pid[b] = p /\ pc[b] = "write"
            \/ service[p] \in mixed \cup orphaned
        BY <4>1 DEF IInv, Tracked
      <4>3. ASSUME NEW b \in Actors, pid[b] = p, pc[b] = "write"
            PROVE  pid'[b] = p /\ pc'[b] = "write"
        BY <4>3, <1>1, <1>6 DEF Stays
      <4>4. QED
        BY <4>1, <4>2, <4>3, <1>1, <1>11
    <3>3. QED
      BY <3>1, <3>2
  <2>2. QED
    BY <2>1 DEF Tracked, Live, LiveThen
<1>17. StopInv'
  <2>1. ASSUME NEW r \in stopped' \ (mixed' \cup orphaned'), NEW p \in Pids,
               LiveThen(p), service'[p] = r
        PROVE  \E b \in Actors : pc'[b] = "wait" /\ Svc(b)' = r /\ pid'[b] = p
    <3>1. p # q
      BY <2>1, <1>1, <1>11
    <3>2. r \in stopped \ (mixed \cup orphaned) /\ p \in LiveOf(r)
      BY <2>1, <3>1, <1>1, <1>11 DEF LiveOf
    <3>3. PICK b \in Actors : pc[b] = "wait" /\ Svc(b) = r /\ pid[b] = p
      BY <3>2 DEF IInv, StopInv
    <3>4. Stays(b)
      BY <3>3, <1>1, <1>6
    <3>5. QED
      BY <3>3, <3>4, StaysSame DEF Stays
  <2>2. QED
    BY <2>1 DEF StopInv, LiveOf, Live, LiveThen
<1>18. ServiceInv'
  <2>1. ASSUME NEW p \in Pids, LiveThen(p) PROVE service'[p] \in Services
    BY <2>1, <1>3, <1>11 DEF IInv, ServiceInv
  <2>2. QED
    BY <2>1 DEF ServiceInv, Live, LiveThen
<1>19. QED
  BY <1>10, <1>13, <1>15, <1>16, <1>17, <1>18 DEF IInv

-----------------------------------------------------------------------------

(* So does every step of an actor. *)
LEMMA StepKeeps ==
  ASSUME TypeInv, IInv, NEW a \in Actors, Step(a) PROVE TypeInv' /\ IInv'
<1>1. CASE Finish(a)
  <2>1. pc[a] = "idle" /\ Leave(a) /\ UNCHANGED <<pidfile, mode, incidents, ghostVars>>
    BY <1>1 DEF Finish
  <2>2. QED
    BY <2>1, EndKeeps
<1>2. CASE IsRunning(a)
  BY <1>2, IsRunningKeeps
<1>3. CASE ClearStale(a)
  BY <1>3, ClearStaleKeeps
<1>4. CASE Spawn(a)
  BY <1>4, SpawnKeeps
<1>5. CASE WritePid(a)
  BY <1>5, WritePidKeeps
<1>6. CASE ReadPid(a)
  BY <1>6, ReadPidKeeps
<1>7. CASE Gone(a)
  BY <1>7, GoneKeeps
<1>8. CASE Deadline(a)
  BY <1>8, DeadlineKeeps
<1>9. CASE Unpid(a)
  BY <1>9, UnpidKeeps
<1>10. QED
  BY <1>1, <1>2, <1>3, <1>4, <1>5, <1>6, <1>7, <1>8, <1>9 DEF Step

(* The invariant holds at the start and every step keeps it.               *)
LEMMA InitKeeps == Init => TypeInv /\ IInv
<1> SUFFICES ASSUME Init PROVE TypeInv /\ IInv
  OBVIOUS
<1>1. Runner \in Actors /\ <<>> \in Seq(Tasks) /\ "off" \in Labels
  BY DEF Actors, Labels
<1>2. TypeInv
  BY <1>1, SupervisionAssumption DEF Init, TypeInv, TypeOK
<1>3. \A p \in Pids : ~Live(p)
  BY DEF Init, Live
<1>4. \A a \in Actors : pc[a] = "off"
  BY DEF Init
<1>5. ActorInv /\ PairInv
  BY <1>4 DEF ActorInv, ActorOK, PairInv
<1>6. ServiceInv /\ Tracked /\ StopInv
  BY <1>3 DEF ServiceInv, Tracked, StopInv, LiveOf
<1>7. QED
  BY <1>2, <1>5, <1>6 DEF IInv

(* So does every step. *)
LEMMA NextKeeps == ASSUME TypeInv, IInv, [Next]_vars PROVE TypeInv' /\ IInv'
<1>1. CASE UNCHANGED vars
  <2>1. /\ UNCHANGED <<pidfile, actorVars, ghostVars, last>> /\ UNCHANGED procVars
        /\ mode' = mode /\ run' = run /\ incidents' = incidents
    BY <1>1 DEF vars, cfgVars
  <2>2. /\ mode' \in Modes \cup {Invalid} /\ incidents' \in 0 .. MaxIncidents
        /\ run' \in {"off", "on", "stopping", "leaving"}
    BY <2>1 DEF TypeInv, TypeOK
  <2>3. QED
    BY <2>1, <2>2, SameProcsLive, StillKeeps DEF TypeInv
<1>2. Runner \in Actors /\ Scripts \subseteq Actors
  BY DEF Actors
<1>3. CASE RunnerStep
  <2>1. CASE Step(Runner)
    BY <2>1, <1>2, StepKeeps
  <2>2. CASE BeginPass
    BY <2>2, BeginPassKeeps
  <2>3. CASE Blocked
    <3>1. /\ pc[Runner] = "idle" /\ Leave(Runner)
          /\ UNCHANGED <<pidfile, mode, incidents, ghostVars>>
      BY <2>3 DEF Blocked
    <3>2. QED
      BY <3>1, <1>2, EndKeeps
  <2>4. CASE BeginShutdown
    BY <2>4, BeginShutdownKeeps
  <2>5. QED
    BY <1>3, <2>1, <2>2, <2>3, <2>4 DEF RunnerStep
<1>4. ASSUME NEW a \in Scripts, Step(a) \/ Launch(a) PROVE TypeInv' /\ IInv'
  BY <1>4, <1>2, StepKeeps, LaunchKeeps
<1>5. ASSUME NEW a \in Actors, KillActor(a) PROVE TypeInv' /\ IInv'
  BY <1>5, KillActorKeeps
<1>6. CASE StartRunner
  BY <1>6, StartRunnerKeeps
<1>7. CASE SignalRunner
  BY <1>7, SignalRunnerKeeps
<1>8. ASSUME NEW m \in Modes \cup {Invalid}, EditConfig(m) PROVE TypeInv' /\ IInv'
  BY <1>8, EditConfigKeeps
<1>9. ASSUME NEW p \in Pids, CrashService(p) \/ Obey(p) PROVE TypeInv' /\ IInv'
  BY <1>9, ProcessKeeps
<1>10. QED
  BY <1>1, <1>3, <1>4, <1>5, <1>6, <1>7, <1>8, <1>9 DEF Next

(* Hence the invariant always holds. *)
LEMMA Always == Spec => [](TypeInv /\ IInv)
<1>1. Init => TypeInv /\ IInv
  BY InitKeeps
<1>2. TypeInv /\ IInv /\ [Next]_vars => (TypeInv /\ IInv)'
  BY NextKeeps
<1>3. QED
  BY <1>1, <1>2, PTL DEF Spec

(* Every task list, pid and process of the supervisor stays within its     *)
(* types.                                                                  *)
THEOREM TypeCorrect == Spec => []TypeOK
<1>1. TypeInv /\ IInv => TypeOK
  BY DEF TypeInv
<1>2. QED
  BY <1>1, Always, PTL

(* process_supervisor: a running process is in its service's pid file, or  *)
(* is about to be, unless controllers met on the service, a starter died   *)
(* between Popen and _write_pid, or SIGKILL was refused.                   *)
THEOREM RunningTracked == Spec => []Tracked
<1>1. TypeInv /\ IInv => Tracked
  BY DEF IInv
<1>2. QED
  BY <1>1, Always, PTL

(* stop_process: once nobody waits any more, nothing runs of a service     *)
(* that was stopped and not started since, with the same exceptions.       *)
THEOREM StoppedDown == Spec => []StopStops
<1>1. TypeInv /\ IInv => StopStops
  <2>1. ASSUME IInv, NEW s \in stopped \ (mixed \cup orphaned),
               \A a \in Actors : pc[a] = "wait" => Svc(a) # s
        PROVE  LiveOf(s) = {}
    BY <2>1 DEF IInv, StopInv
  <2>2. QED
    BY <2>1 DEF StopStops
<1>2. QED
  BY <1>1, Always, PTL
=============================================================================
