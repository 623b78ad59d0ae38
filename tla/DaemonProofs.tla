---------------------------- MODULE DaemonProofs ----------------------------
(***************************************************************************)
(* Of Daemon, for any number of daemons, cache directories, command lines, *)
(* answers and restarts: whom a socket leads to, the types, what a mount's *)
(* arguments are, which servers it asks, what STATUS.txt says and what     *)
(* --persist brings back.  Of Names, for every name.                       *)
(*                                                                         *)
(* AloneServed rests on two facts about a daemon that nobody shared its    *)
(* directory with: every other control task is in another directory, so    *)
(* that none touches its socket file; and between removing the file that a *)
(* killed daemon left and binding its own, there is no file.               *)
(***************************************************************************)
EXTENDS Daemon, Names, Induction, TLAPS

Serving == {"mounting", "up", "publish"}
Phases  == Serving \union {"off", "servers", "manifest", "list", "drives", "meta", "repos",
                           "files", "keys", "saved", "pay", "make"}
Tasks   == {"none", "spawned", "unlinked", "bound", "dead"}

Shapes ==
  /\ plan \in Plans
  /\ phase \in [Daemons -> Phases] /\ task \in [Daemons -> Tasks]
  /\ shared \in [Daemons -> BOOLEAN]
  /\ args = [d \in Daemons |-> args[d]] /\ sock = [c \in Dirs |-> sock[c]]

\* Exactly the daemons that serve have a control task, each in its directory.
Placed ==
  \A d \in Daemons :
    /\ task[d] # "none" <=> phase[d] \in Serving
    /\ Alive(d) => DirOf(d) \in Dirs

Apart ==
  \A d, e \in Daemons :
    d # e /\ ~shared[d] /\ task[d] # "none" /\ task[e] # "none" => DirOf(d) # DirOf(e)

Owned ==
  \A d \in Daemons : ~shared[d] =>
    /\ task[d] # "dead"
    /\ task[d] = "unlinked" => sock[DirOf(d)] = Nobody
    /\ task[d] = "bound" /\ phase[d] # "publish" => sock[DirOf(d)] = d

SocketInv == Shapes /\ Placed /\ Apart /\ Owned

-----------------------------------------------------------------------------
\* A step that leaves directories, tasks and sockets alone.
LEMMA QuietStep ==
  ASSUME SocketInv, plan' = plan, args' = args, task' = task, sock' = sock, shared' = shared,
         phase' \in [Daemons -> Phases],
         \A d \in Daemons :
           /\ phase'[d] # "off" => phase[d] # "off"
           /\ phase[d] \in Serving <=> phase'[d] \in Serving
           /\ phase[d] = "publish" => phase'[d] = "publish"
  PROVE  SocketInv'
<1>1. Shapes'
  BY DEF SocketInv, Shapes
<1>2. Placed'
  BY DEF SocketInv, Placed, Alive, Off, DirOf
<1>3. Apart'
  BY DEF SocketInv, Apart, DirOf
<1>4. Owned'
  BY DEF SocketInv, Owned, DirOf
<1>5. QED  BY <1>1, <1>2, <1>3, <1>4 DEF SocketInv

\* A process ends and leaves its socket file.
LEMMA EndStep ==
  ASSUME SocketInv, NEW d \in Daemons, Ends(d), plan' = plan, sock' = sock
  PROVE  SocketInv'
<1>1. /\ phase' = [phase EXCEPT ![d] = "off"] /\ args' = [args EXCEPT ![d] = NoArgs]
      /\ task' = [task EXCEPT ![d] = "none"] /\ shared' = [shared EXCEPT ![d] = FALSE]
  BY DEF Ends, Goto
<1>2. Shapes'
  BY <1>1 DEF SocketInv, Shapes, Phases, Tasks
<1>3. /\ phase'[d] = "off" /\ task'[d] = "none"
      /\ \A e \in Daemons : e # d =>
           /\ phase'[e] = phase[e] /\ task'[e] = task[e] /\ shared'[e] = shared[e]
           /\ args'[e] = args[e]
  BY <1>1 DEF SocketInv, Shapes
<1>4. Placed'
  BY <1>3 DEF SocketInv, Placed, Alive, Off, DirOf, Serving
<1>5. Apart'
  BY <1>3 DEF SocketInv, Apart, DirOf
<1>6. Owned'
  BY <1>3 DEF SocketInv, Owned, DirOf
<1>7. QED  BY <1>2, <1>4, <1>5, <1>6 DEF SocketInv

LEMMA LaunchStep ==
  ASSUME SocketInv, NEW d \in Daemons, NEW l \in plan[d], Launch(d, l), plan' = plan
  PROVE  SocketInv'
<1> DEFINE a == LoadMerged(l.flags, l.file, l.env)
<1> HIDE DEF a
<1>0. phase[d] = "off" /\ task' = task /\ sock' = sock /\ shared' = shared
  BY DEF Launch, sockVars
<1>1. CASE UNCHANGED <<phase, args>>
  BY <1>0, <1>1, QuietStep DEF SocketInv, Shapes
<1>2. CASE ~UNCHANGED <<phase, args>>
  <2>1. phase' = [phase EXCEPT ![d] = "servers"] /\ args' = [args EXCEPT ![d] = a]
    BY <1>2 DEF Launch, Goto, a
  <2>2. a.cache_dir \in Dirs
    <3>1. l \in UNION {p[e] : p \in Plans, e \in Daemons}
      BY DEF SocketInv, Shapes
    <3>2. QED  BY <3>1 DEF Dirs, a
  <2>3. Shapes'
    BY <1>0, <2>1 DEF SocketInv, Shapes, Phases
  <2>4. /\ phase'[d] = "servers" /\ args'[d] = a /\ task[d] = "none"
        /\ \A e \in Daemons : e # d => phase'[e] = phase[e] /\ args'[e] = args[e]
    BY <1>0, <2>1 DEF SocketInv, Shapes, Placed, Serving
  <2>5. Placed'
    BY <1>0, <2>2, <2>4 DEF SocketInv, Placed, Alive, Off, DirOf, Serving
  <2>6. Apart'
    BY <1>0, <2>4 DEF SocketInv, Apart, DirOf
  <2>7. Owned'
    BY <1>0, <2>4 DEF SocketInv, Owned, DirOf
  <2>8. QED  BY <2>3, <2>5, <2>6, <2>7 DEF SocketInv
<1>3. QED  BY <1>1, <1>2

\* The control task is spawned; who shares a directory is noted.
LEMMA ReadyStep ==
  ASSUME SocketInv, NEW d \in Daemons, Ready(d), plan' = plan
  PROVE  SocketInv'
<1>0. phase[d] = "make" /\ args' = args /\ sock' = sock /\ task[d] = "none"
  BY DEF Ready, startVars, sockVars, SocketInv, Placed, Serving
<1>1. /\ phase' = [phase EXCEPT ![d] = "mounting"] /\ task' = [task EXCEPT ![d] = "spawned"]
      /\ shared' = [e \in Daemons |->
           \/ shared[e]
           \/ e = d /\ \E f \in Daemons \ {d} : task[f] # "none" /\ DirOf(f) = DirOf(d)
           \/ e # d /\ task[e] # "none" /\ DirOf(e) = DirOf(d)]
  BY DEF Ready, Goto
<1>2. phase' \in [Daemons -> Phases] /\ task' \in [Daemons -> Tasks]
  BY <1>1 DEF SocketInv, Shapes, Phases, Serving, Tasks
<1>3. shared' \in [Daemons -> BOOLEAN]
  <2>1. \A e \in Daemons : shared'[e] \in BOOLEAN
    BY <1>1 DEF SocketInv, Shapes
  <2>2. QED  BY <1>1, <2>1
<1>4. Shapes'
  BY <1>0, <1>2, <1>3 DEF SocketInv, Shapes
<1>5. /\ phase'[d] = "mounting" /\ task'[d] = "spawned"
      /\ \A e \in Daemons : e # d => phase'[e] = phase[e] /\ task'[e] = task[e]
  BY <1>1 DEF SocketInv, Shapes
<1>6. \A e \in Daemons :
        /\ ~shared'[e] => ~shared[e]
        /\ e # d /\ task[e] # "none" /\ DirOf(e) = DirOf(d) => shared'[e] /\ shared'[d]
  BY <1>1
<1>7. Placed'
  BY <1>0, <1>5 DEF SocketInv, Placed, Alive, Off, DirOf, Serving
<1>8. Apart'
  <2> SUFFICES ASSUME NEW e \in Daemons, NEW f \in Daemons, e # f, ~shared'[e],
                      task'[e] # "none", task'[f] # "none"
               PROVE  DirOf(e)' # DirOf(f)'
    BY DEF Apart
  <2>1. CASE e = d
    BY <1>0, <1>5, <1>6, <2>1 DEF DirOf
  <2>2. CASE f = d
    BY <1>0, <1>5, <1>6, <2>2 DEF DirOf
  <2>3. CASE e # d /\ f # d
    BY <1>0, <1>5, <1>6, <2>3 DEF SocketInv, Apart, DirOf
  <2>4. QED  BY <2>1, <2>2, <2>3
<1>9. Owned'
  BY <1>0, <1>5, <1>6 DEF SocketInv, Owned, DirOf
<1>10. QED  BY <1>4, <1>7, <1>8, <1>9 DEF SocketInv

\* What happens to the socket file of one directory: by Apart it is no other
\* unshared daemon's.
LEMMA SocketStep ==
  ASSUME SocketInv, NEW d \in Daemons, task[d] # "none", NEW who,
         plan' = plan, args' = args, shared' = shared,
         phase' \in [Daemons -> Phases], task' \in [Daemons -> Tasks],
         \A e \in Daemons : e # d => phase'[e] = phase[e] /\ task'[e] = task[e],
         phase'[d] \in Serving, task'[d] # "none",
         sock' = [sock EXCEPT ![DirOf(d)] = who],
         ~shared[d] => /\ task'[d] # "dead"
                       /\ task'[d] = "unlinked" => who = Nobody
                       /\ task'[d] = "bound" /\ phase'[d] # "publish" => who = d
  PROVE  SocketInv'
<1>1. Alive(d) /\ DirOf(d) \in Dirs
  BY DEF SocketInv, Placed, Alive, Off, Serving
<1>2. Shapes'
  BY DEF SocketInv, Shapes
<1>3. Placed'
  BY <1>1 DEF SocketInv, Placed, Alive, Off, DirOf
<1>4. Apart'
  BY DEF SocketInv, Apart, DirOf
<1>5. ASSUME NEW e \in Daemons, ~shared[e]
      PROVE  /\ task'[e] # "dead"
             /\ task'[e] = "unlinked" => sock'[DirOf(e)] = Nobody
             /\ task'[e] = "bound" /\ phase'[e] # "publish" => sock'[DirOf(e)] = e
  <2>1. CASE e = d
    <3>1. sock'[DirOf(d)] = who
      BY <1>1 DEF SocketInv, Shapes
    <3>2. QED  BY <1>5, <2>1, <3>1
  <2>2. CASE e # d /\ task[e] = "none"
    BY <2>2
  <2>3. CASE e # d /\ task[e] # "none"
    <3>1. DirOf(e) # DirOf(d) /\ DirOf(e) \in Dirs
      BY <1>5, <2>3 DEF SocketInv, Apart, Placed, Alive, Off, Serving
    <3>2. sock'[DirOf(e)] = sock[DirOf(e)]
      BY <3>1 DEF SocketInv, Shapes
    <3>3. QED  BY <1>5, <2>3, <3>2 DEF SocketInv, Owned
  <2>4. QED  BY <2>1, <2>2, <2>3
<1>6. Owned'
  BY <1>5 DEF Owned, DirOf
<1>7. QED  BY <1>2, <1>3, <1>4, <1>6 DEF SocketInv

\* The steps of a start: all but Ready leave the socket alone.
LEMMA StartKeeps ==
  ASSUME SocketInv, NEW d \in Daemons, StartStep(d), plan' = plan
  PROVE  SocketInv'
<1> DEFINE Quiet(p, q) ==
      /\ phase[d] = p /\ phase' = [phase EXCEPT ![d] = q]
      /\ args' = args /\ task' = task /\ sock' = sock /\ shared' = shared
<1>1. ASSUME NEW p, NEW q \in Phases \ {"off", "publish"}, p \notin {"off", "publish"},
             Quiet(p, q), p \in Serving <=> q \in Serving
      PROVE  SocketInv'
  <2>1. phase' \in [Daemons -> Phases]
    BY <1>1 DEF SocketInv, Shapes
  <2>2. \A e \in Daemons :
          /\ phase'[e] # "off" => phase[e] # "off"
          /\ phase[e] \in Serving <=> phase'[e] \in Serving
          /\ phase[e] = "publish" => phase'[e] = "publish"
    BY <1>1 DEF SocketInv, Shapes
  <2>3. QED  BY <1>1, <2>1, <2>2, QuietStep
<1> USE DEF Goto, Phases, Serving, startVars, sockVars
<1>2. CASE Discover(d)
  <2>1. Quiet("servers", "manifest")
    BY <1>2 DEF Discover
  <2>2. QED  BY <1>1, <2>1
<1>3. CASE Manifest(d)
  <2>1. CASE Quiet("manifest", "list")
    BY <1>1, <2>1
  <2>2. CASE Ends(d) /\ sock' = sock
    BY <2>2, EndStep
  <2>3. QED  BY <1>3, <2>1, <2>2 DEF Manifest
<1>4. CASE List(d)
  <2>1. Quiet("list", "drives")
    BY <1>4 DEF List
  <2>2. QED  BY <1>1, <2>1
<1>5. CASE Drives(d)
  <2>1. Quiet("drives", "meta")
    BY <1>5 DEF Drives
  <2>2. QED  BY <1>1, <2>1
<1>6. CASE Metadata(d)
  <2>1. Quiet("meta", "repos")
    BY <1>6 DEF Metadata
  <2>2. QED  BY <1>1, <2>1
<1>7. CASE Repos(d)
  <2>1. Quiet("repos", "files")
    BY <1>7 DEF Repos
  <2>2. QED  BY <1>1, <2>1
<1>8. CASE Files(d)
  <2>1. CASE Quiet("files", "keys")
    BY <1>1, <2>1
  <2>2. CASE Ends(d) /\ sock' = sock
    BY <2>2, EndStep
  <2>3. QED  BY <1>8, <2>1, <2>2 DEF Files
<1>9. CASE ReadKeys(d)
  <2>1. Quiet("keys", "saved")
    BY <1>9 DEF ReadKeys
  <2>2. QED  BY <1>1, <2>1
<1>10. CASE Restore(d)
  <2>1. Quiet("saved", "pay")
    BY <1>10 DEF Restore
  <2>2. QED  BY <1>1, <2>1
<1>11. CASE ChoosePayment(d)
  <2>1. Quiet("pay", "make")
    BY <1>11 DEF ChoosePayment
  <2>2. QED  BY <1>1, <2>1
<1>12. CASE Ready(d)
  BY <1>12, ReadyStep
<1>13. CASE Mounted(d)
  <2>1. Quiet("mounting", "up")
    BY <1>13 DEF Mounted
  <2>2. QED  BY <1>1, <2>1
<1>14. CASE MountFails(d)
  BY <1>14, EndStep DEF MountFails
<1>15. QED
  BY <1>2, <1>3, <1>4, <1>5, <1>6, <1>7, <1>8, <1>9, <1>10, <1>11, <1>12, <1>13, <1>14
  DEF StartStep

\* The control task's own steps, and the removal of its file at the unmount.
LEMMA SocketKeeps ==
  ASSUME SocketInv, NEW d \in Daemons, Unmounted(d) \/ RemoveSocket(d) \/ Bind(d), plan' = plan
  PROVE  SocketInv'
<1>0. Shapes /\ args' = args /\ shared' = shared
  BY DEF SocketInv, Unmounted, RemoveSocket, Bind, startVars
<1>1. CASE Unmounted(d)
  <2>1. /\ phase[d] = "up" /\ phase' = [phase EXCEPT ![d] = "publish"] /\ task' = task
        /\ sock' = [sock EXCEPT ![DirOf(d)] = Nobody]
    BY <1>1 DEF Unmounted, Goto
  <2>2. /\ phase' \in [Daemons -> Phases] /\ phase'[d] = "publish"
        /\ \A e \in Daemons : e # d => phase'[e] = phase[e]
    BY <1>0, <2>1 DEF Shapes, Phases, Serving
  <2>3. task[d] # "none"
    BY <2>1 DEF SocketInv, Placed, Serving
  <2>4. task[d] # "dead" \/ shared[d]
    BY DEF SocketInv, Owned
  <2>5. QED  BY <1>0, <2>1, <2>2, <2>3, <2>4, SocketStep DEF Shapes, Serving
<1>2. CASE RemoveSocket(d)
  <2>1. /\ task[d] = "spawned" /\ task' = [task EXCEPT ![d] = "unlinked"] /\ phase' = phase
        /\ sock' = [sock EXCEPT ![DirOf(d)] = Nobody]
    BY <1>2 DEF RemoveSocket
  <2>2. phase[d] \in Serving
    BY <2>1 DEF SocketInv, Placed
  <2>3. /\ task' \in [Daemons -> Tasks] /\ task'[d] = "unlinked"
        /\ \A e \in Daemons : e # d => task'[e] = task[e]
    BY <1>0, <2>1 DEF Shapes, Tasks
  <2>4. QED  BY <1>0, <2>1, <2>2, <2>3, SocketStep DEF Shapes
<1>3. CASE Bind(d)
  <2>1. task[d] = "unlinked" /\ phase' = phase
    BY <1>3 DEF Bind
  <2>2. phase[d] \in Serving /\ DirOf(d) \in Dirs
    BY <2>1 DEF SocketInv, Placed, Alive, Off, Serving
  <2>3. CASE sock[DirOf(d)] = Nobody
    <3>1. /\ task' = [task EXCEPT ![d] = "bound"] /\ sock' = [sock EXCEPT ![DirOf(d)] = d]
      BY <1>3, <2>3 DEF Bind
    <3>2. /\ task' \in [Daemons -> Tasks] /\ task'[d] = "bound"
          /\ \A e \in Daemons : e # d => task'[e] = task[e]
      BY <1>0, <3>1 DEF Shapes, Tasks
    <3>3. QED  BY <1>0, <2>1, <2>2, <3>1, <3>2, SocketStep DEF Shapes
  <2>4. CASE sock[DirOf(d)] # Nobody
    <3>1. /\ task' = [task EXCEPT ![d] = "dead"] /\ sock' = sock /\ shared[d]
      BY <1>3, <2>1, <2>4 DEF Bind, SocketInv, Owned
    <3>2. /\ task' \in [Daemons -> Tasks] /\ task'[d] = "dead"
          /\ \A e \in Daemons : e # d => task'[e] = task[e]
      BY <1>0, <3>1 DEF Shapes, Tasks
    <3>3. sock' = [sock EXCEPT ![DirOf(d)] = sock[DirOf(d)]]
      BY <1>0, <3>1 DEF Shapes
    <3>4. QED  BY <1>0, <2>1, <2>2, <3>1, <3>2, <3>3, SocketStep DEF Shapes
  <2>5. QED  BY <2>3, <2>4
<1>4. QED  BY <1>1, <1>2, <1>3

LEMMA InitSocket == Init => SocketInv
<1> SUFFICES ASSUME Init PROVE SocketInv
  OBVIOUS
<1>1. Shapes
  BY DEF Init, Shapes, Phases, Tasks
<1>2. Placed /\ Apart /\ Owned
  BY DEF Init, Placed, Apart, Owned, Alive, Off, Serving
<1>3. QED  BY <1>1, <1>2 DEF SocketInv

LEMMA NextKeeps == SocketInv /\ [Next]_vars => SocketInv'
<1> SUFFICES ASSUME SocketInv, [Next]_vars PROVE SocketInv'
  OBVIOUS
<1>1. ASSUME plan' = plan, phase' = phase, args' = args, task' = task, sock' = sock,
             shared' = shared
      PROVE  SocketInv'
  BY <1>1, QuietStep DEF SocketInv, Shapes
<1>2. CASE Next
  <2>0. plan' = plan
    BY <1>2 DEF Next
  <2>1. ASSUME NEW d \in Daemons, NEW l \in plan[d], Launch(d, l) PROVE SocketInv'
    BY <2>0, <2>1, LaunchStep
  <2>2. ASSUME NEW d \in Daemons, StartStep(d) PROVE SocketInv'
    BY <2>0, <2>2, StartKeeps
  <2>3. ASSUME NEW d \in Daemons, Unmounted(d) \/ RemoveSocket(d) \/ Bind(d) PROVE SocketInv'
    BY <2>0, <2>3, SocketKeeps
  <2>4. ASSUME NEW d \in Daemons, Exit(d) \/ Kill(d) PROVE SocketInv'
    BY <2>0, <2>4, EndStep DEF Exit, Kill
  <2>5. ASSUME NEW c \in Dirs, Connect(c) PROVE SocketInv'
    BY <1>1, <2>0, <2>5 DEF Connect, startVars
  <2>6. CASE Command
    BY <1>1, <2>0, <2>6 DEF Command, startVars
  <2>7. QED  BY <1>2, <2>1, <2>2, <2>3, <2>4, <2>5, <2>6 DEF Next
<1>3. CASE UNCHANGED vars
  BY <1>1, <1>3 DEF vars, startVars, sockVars
<1>4. QED  BY <1>2, <1>3

\* A daemon that no other shared its cache directory with is the one the socket
\* there leads to, from the moment it is bound to the unmount, whatever daemons
\* killed before it have left there and whatever those of other directories do
\* (main.rs:719, control.rs:43).
THEOREM AloneIsServed == Spec => []AloneServed
<1>1. SocketInv => AloneServed
  BY DEF SocketInv, Owned, AloneServed
<1>2. QED  BY <1>1, InitSocket, NextKeeps, PTL DEF Spec

-----------------------------------------------------------------------------
(* The types.  What is not in them: that launch and args are functions of  *)
(* the daemons, which every EXCEPT needs.                                  *)

Payments == {"none", "token", "nwc"}

Typed ==
  /\ phase \in [Daemons -> Phases] /\ task \in [Daemons -> Tasks]
  /\ keys \in [Daemons -> BOOLEAN] /\ rw \in [Daemons -> BOOLEAN]
  /\ pays \in [Daemons -> Payments] /\ frozen \in [Daemons -> BOOLEAN]
  /\ starts \in [Daemons -> 0 .. MaxLaunches]
  /\ sock \in [Dirs -> Daemons \union {Nobody}]
  /\ launch = [d \in Daemons |-> launch[d]] /\ args = [d \in Daemons |-> args[d]]

\* A daemon that is alive has a command line and its arguments, one that is not
\* has nothing.
Holds(d) ==
  /\ Alive(d) => launch[d] \in plan[d] /\ DOMAIN args[d] = Options
  /\ ~Alive(d) => args[d] = NoArgs /\ task[d] = "none" /\ ~rw[d] /\ ~frozen[d]
  /\ task[d] # "none" <=> phase[d] \in Serving

Connected == client = Nobody \/ (client \in Daemons /\ task[client] = "bound")

TypeInv == Typed /\ (\A d \in Daemons : Holds(d)) /\ Connected

LEMMA TypeInvIsTypeOK == TypeInv => TypeOK
  BY DEF TypeInv, Typed, Holds, Connected, TypeOK, Phases, Serving, Tasks, Payments

\* A start goes on; what it has built and heard is not in the types.
LEMMA GoOn ==
  ASSUME TypeInv, NEW d \in Daemons, NEW q \in Phases \ Off, Alive(d),
         phase' = [phase EXCEPT ![d] = q], phase[d] \in Serving <=> q \in Serving,
         plan' = plan, launch' = launch, args' = args, task' = task, rw' = rw,
         frozen' = frozen, starts' = starts, client' = client,
         keys' \in [Daemons -> BOOLEAN], pays' \in [Daemons -> Payments],
         sock' \in [Dirs -> Daemons \union {Nobody}]
  PROVE  TypeInv'
<1>1. phase' \in [Daemons -> Phases]
  BY DEF TypeInv, Typed
<1>2. Typed'
  BY <1>1 DEF TypeInv, Typed
<1>3. phase'[d] = q /\ \A e \in Daemons : e # d => phase'[e] = phase[e]
  BY DEF TypeInv, Typed
<1>4. \A e \in Daemons : Holds(e)'
  BY <1>3 DEF TypeInv, Holds, Alive, Off
<1>5. Connected'
  BY DEF TypeInv, Connected
<1>6. QED  BY <1>2, <1>4, <1>5 DEF TypeInv

\* One that ends has nothing, and its client no connection.
LEMMA GoOff ==
  ASSUME TypeInv, NEW d \in Daemons, Ends(d), plan' = plan, sock' = sock
  PROVE  TypeInv'
<1>1. Typed'
  <2>1. /\ phase' \in [Daemons -> Phases] /\ task' \in [Daemons -> Tasks]
        /\ keys' \in [Daemons -> BOOLEAN] /\ rw' \in [Daemons -> BOOLEAN]
        /\ pays' \in [Daemons -> Payments] /\ frozen' \in [Daemons -> BOOLEAN]
    BY DEF Ends, Goto, TypeInv, Typed, Phases, Tasks, Payments
  <2>2. /\ launch' = [e \in Daemons |-> launch'[e]] /\ args' = [e \in Daemons |-> args'[e]]
        /\ starts' = starts
    BY DEF Ends, TypeInv, Typed
  <2>3. QED  BY <2>1, <2>2 DEF TypeInv, Typed
<1>2. Holds(d)'
  BY DEF Ends, Goto, TypeInv, Typed, Holds, Alive, Off, Serving
<1>3. ASSUME NEW e \in Daemons, e # d
      PROVE  Holds(e)'
  <2>1. /\ phase'[e] = phase[e] /\ task'[e] = task[e] /\ rw'[e] = rw[e]
        /\ frozen'[e] = frozen[e] /\ launch'[e] = launch[e] /\ args'[e] = args[e]
    BY <1>3 DEF Ends, Goto, TypeInv, Typed
  <2>2. QED  BY <2>1 DEF TypeInv, Holds, Alive
<1>4. Connected'
  <2>1. client' = (IF client = d THEN Nobody ELSE client) /\ task' = [task EXCEPT ![d] = "none"]
    BY DEF Ends
  <2>2. QED  BY <2>1 DEF TypeInv, Typed, Connected
<1>5. QED  BY <1>1, <1>2, <1>3, <1>4 DEF TypeInv

\* A command line that is refused leaves nothing but the count.
LEMMA GoUp ==
  ASSUME TypeInv, NEW d \in Daemons, NEW l \in plan[d], Launch(d, l), plan' = plan
  PROVE  TypeInv'
<1> DEFINE a == LoadMerged(l.flags, l.file, l.env)
<1>0. DOMAIN a = Options
  BY DEF LoadMerged, Merged
<1> HIDE DEF a
<1>1. /\ phase[d] = "off" /\ starts[d] < MaxLaunches /\ starts' = [starts EXCEPT ![d] = @ + 1]
      /\ task' = task /\ rw' = rw /\ frozen' = frozen /\ client' = client /\ sock' = sock
      /\ keys' = keys /\ pays' = pays
  BY DEF Launch, sockVars
<1>2. starts' \in [Daemons -> 0 .. MaxLaunches]
  BY <1>1, DaemonAssumption DEF TypeInv, Typed
<1>3. CASE UNCHANGED <<phase, launch, args>>
  BY <1>1, <1>2, <1>3 DEF TypeInv, Typed, Holds, Connected, Alive
<1>4. CASE ~UNCHANGED <<phase, launch, args>>
  <2>1. /\ phase' = [phase EXCEPT ![d] = "servers"] /\ args' = [args EXCEPT ![d] = a]
        /\ launch' = [launch EXCEPT ![d] = l]
    BY <1>4 DEF Launch, Goto, a
  <2>2. /\ phase' \in [Daemons -> Phases] /\ launch' = [e \in Daemons |-> launch'[e]]
        /\ args' = [e \in Daemons |-> args'[e]]
    BY <2>1 DEF TypeInv, Typed, Phases
  <2>3. Typed'
    BY <1>1, <1>2, <2>2 DEF TypeInv, Typed
  <2>4. /\ phase'[d] = "servers" /\ launch'[d] = l /\ args'[d] = a
        /\ \A e \in Daemons : e # d => /\ phase'[e] = phase[e] /\ launch'[e] = launch[e]
                                       /\ args'[e] = args[e]
    BY <2>1 DEF TypeInv, Typed
  <2>5. Holds(d)'
    BY <1>0, <1>1, <2>4 DEF TypeInv, Holds, Alive, Off, Serving
  <2>6. ASSUME NEW e \in Daemons, e # d
        PROVE  Holds(e)'
    BY <1>1, <2>4, <2>6 DEF TypeInv, Holds, Alive
  <2>7. Connected'
    BY <1>1 DEF TypeInv, Connected
  <2>8. QED  BY <2>3, <2>5, <2>6, <2>7 DEF TypeInv
<1>5. QED  BY <1>3, <1>4

\* The control task goes on: it is there before and after, and a client stays
\* with a socket that is bound.
LEMMA TaskGoesOn ==
  ASSUME TypeInv, NEW d \in Daemons, NEW t \in Tasks \ {"none"},
         task[d] \notin {"none", "bound"}, task' = [task EXCEPT ![d] = t],
         plan' = plan, phase' = phase, startVars' = startVars, rw' = rw, frozen' = frozen,
         client' = client, starts' = starts, sock' \in [Dirs -> Daemons \union {Nobody}]
  PROVE  TypeInv'
<1>1. task' \in [Daemons -> Tasks]
  BY DEF TypeInv, Typed
<1>2. Typed'
  BY <1>1 DEF TypeInv, Typed, startVars
<1>3. task'[d] = t /\ \A e \in Daemons : e # d => task'[e] = task[e]
  BY DEF TypeInv, Typed
<1>4. \A e \in Daemons : Holds(e)'
  BY <1>3 DEF TypeInv, Holds, Alive, Off, Serving, startVars
<1>5. Connected'
  BY <1>3 DEF TypeInv, Connected
<1>6. QED  BY <1>2, <1>4, <1>5 DEF TypeInv

LEMMA ReadyType ==
  ASSUME TypeInv, NEW d \in Daemons, Ready(d), plan' = plan
  PROVE  TypeInv'
<1>1. /\ phase[d] = "make" /\ phase' = [phase EXCEPT ![d] = "mounting"]
      /\ rw' = [rw EXCEPT ![d] = keys[d] /\ servers[d] # <<>> /\ ~args[d].read_only]
      /\ task' = [task EXCEPT ![d] = "spawned"]
      /\ launch' = launch /\ args' = args /\ keys' = keys /\ pays' = pays /\ starts' = starts
      /\ frozen' = frozen /\ sock' = sock /\ client' = client
  BY DEF Ready, Goto, startVars, sockVars
<1>2. phase' \in [Daemons -> Phases] /\ task' \in [Daemons -> Tasks]
  BY <1>1 DEF TypeInv, Typed, Phases, Serving, Tasks
<1>3. rw' \in [Daemons -> BOOLEAN]
  <2>1. (keys[d] /\ servers[d] # <<>> /\ ~args[d].read_only) \in BOOLEAN
    OBVIOUS
  <2>2. QED  BY <1>1, <2>1 DEF TypeInv, Typed
<1>4. Typed'
  BY <1>1, <1>2, <1>3 DEF TypeInv, Typed
<1>5. /\ phase'[d] = "mounting" /\ task'[d] = "spawned"
      /\ \A e \in Daemons : e # d => /\ phase'[e] = phase[e] /\ task'[e] = task[e]
                                     /\ rw'[e] = rw[e]
  BY <1>1 DEF TypeInv, Typed
<1>6. task[d] = "none"
  BY <1>1 DEF TypeInv, Holds, Serving
<1>7. Holds(d)'
  BY <1>1, <1>5 DEF TypeInv, Holds, Alive, Off, Serving
<1>8. ASSUME NEW e \in Daemons, e # d
      PROVE  Holds(e)'
  BY <1>1, <1>5, <1>8 DEF TypeInv, Holds, Alive
<1>9. Connected'
  BY <1>1, <1>5, <1>6 DEF TypeInv, Connected
<1>10. QED  BY <1>4, <1>7, <1>8, <1>9 DEF TypeInv

LEMMA StartType ==
  ASSUME TypeInv, NEW d \in Daemons, StartStep(d), plan' = plan
  PROVE  TypeInv'
<1> DEFINE On(p, q) ==
      /\ phase[d] = p /\ phase' = [phase EXCEPT ![d] = q]
      /\ launch' = launch /\ args' = args /\ task' = task /\ rw' = rw /\ frozen' = frozen
      /\ starts' = starts /\ client' = client /\ sock' = sock
      /\ keys' \in [Daemons -> BOOLEAN] /\ pays' \in [Daemons -> Payments]
<1>1. ASSUME NEW p \in Phases \ Off, NEW q \in Phases \ Off, On(p, q),
             p \in Serving <=> q \in Serving
      PROVE  TypeInv'
  BY <1>1, GoOn DEF TypeInv, Typed, Alive
<1>0. Typed
  BY DEF TypeInv
<1> USE DEF Goto, Phases, Serving, Off, startVars, sockVars
<1>2. CASE Discover(d)
  <2>1. On("servers", "manifest")
    BY <1>0, <1>2 DEF Discover, Typed
  <2>2. QED  BY <1>1, <2>1
<1>3. CASE Manifest(d)
  <2>1. CASE On("manifest", "list")
    BY <1>1, <2>1
  <2>2. CASE Ends(d) /\ sock' = sock
    BY <2>2, GoOff
  <2>3. QED  BY <1>0, <1>3, <2>1, <2>2 DEF Manifest, Typed
<1>4. CASE List(d)
  <2>1. On("list", "drives")
    BY <1>0, <1>4 DEF List, Typed
  <2>2. QED  BY <1>1, <2>1
<1>5. CASE Drives(d)
  <2>1. On("drives", "meta")
    BY <1>0, <1>5 DEF Drives, Typed
  <2>2. QED  BY <1>1, <2>1
<1>6. CASE Metadata(d)
  <2>1. On("meta", "repos")
    BY <1>0, <1>6 DEF Metadata, Typed
  <2>2. QED  BY <1>1, <2>1
<1>7. CASE Repos(d)
  <2>1. On("repos", "files")
    BY <1>0, <1>7 DEF Repos, Typed
  <2>2. QED  BY <1>1, <2>1
<1>8. CASE Files(d)
  <2>1. CASE On("files", "keys")
    BY <1>1, <2>1
  <2>2. CASE Ends(d) /\ sock' = sock
    BY <2>2, GoOff
  <2>3. QED  BY <1>0, <1>8, <2>1, <2>2 DEF Files, Typed
<1>9. CASE ReadKeys(d)
  <2>1. keys' \in [Daemons -> BOOLEAN]
    BY <1>0, <1>9 DEF ReadKeys, Typed
  <2>2. On("keys", "saved")
    BY <1>0, <1>9, <2>1 DEF ReadKeys, Typed
  <2>3. QED  BY <1>1, <2>2
<1>10. CASE Restore(d)
  <2>1. On("saved", "pay")
    BY <1>0, <1>10 DEF Restore, Typed
  <2>2. QED  BY <1>1, <2>1
<1>11. CASE ChoosePayment(d)
  <2>1. PICK p \in Payments : pays' = [pays EXCEPT ![d] = p]
    BY <1>11 DEF ChoosePayment, Payments
  <2>2. pays' \in [Daemons -> Payments]
    BY <1>0, <2>1 DEF Typed
  <2>3. On("pay", "make")
    BY <1>0, <1>11, <2>2 DEF ChoosePayment, Typed
  <2>4. QED  BY <1>1, <2>3
<1>12. CASE Ready(d)
  BY <1>12, ReadyType
<1>13. CASE Mounted(d)
  <2>1. On("mounting", "up")
    BY <1>0, <1>13 DEF Mounted, Typed
  <2>2. QED  BY <1>1, <2>1
<1>14. CASE MountFails(d)
  BY <1>14, GoOff DEF MountFails
<1>15. QED
  BY <1>2, <1>3, <1>4, <1>5, <1>6, <1>7, <1>8, <1>9, <1>10, <1>11, <1>12, <1>13, <1>14
  DEF StartStep

\* The end of the mount, the control task, and its client.
LEMMA SocketType ==
  ASSUME TypeInv, NEW d \in Daemons, Unmounted(d) \/ RemoveSocket(d) \/ Bind(d), plan' = plan
  PROVE  TypeInv'
<1>0. Typed
  BY DEF TypeInv
<1>1. CASE Unmounted(d)
  <2>1. sock' \in [Dirs -> Daemons \union {Nobody}]
    BY <1>0, <1>1 DEF Unmounted, Typed
  <2>2. QED
    BY <1>0, <1>1, <2>1, GoOn
    DEF Unmounted, Goto, Typed, Alive, Off, Phases, Serving, startVars
<1>2. CASE RemoveSocket(d)
  <2>1. sock' \in [Dirs -> Daemons \union {Nobody}]
    BY <1>0, <1>2 DEF RemoveSocket, Typed
  <2>2. QED  BY <1>2, <2>1, TaskGoesOn DEF RemoveSocket, Tasks
<1>3. CASE Bind(d)
  <2>1. PICK t \in {"bound", "dead"} : task' = [task EXCEPT ![d] = t]
    BY <1>3 DEF Bind
  <2>2. sock' \in [Dirs -> Daemons \union {Nobody}]
    BY <1>0, <1>3 DEF Bind, Typed
  <2>3. QED  BY <1>3, <2>1, <2>2, TaskGoesOn DEF Bind, Tasks
<1>4. QED  BY <1>1, <1>2, <1>3

LEMMA ClientType ==
  ASSUME TypeInv, plan' = plan, Command \/ \E c \in Dirs : Connect(c)
  PROVE  TypeInv'
<1>1. CASE Command
  <2>1. client # Nobody /\ client \in Daemons /\ task[client] = "bound"
    BY <1>1 DEF Command, TypeInv, Connected
  <2>2. frozen[client] \in BOOLEAN
    BY <2>1 DEF TypeInv, Typed
  <2>3. PICK f \in BOOLEAN : frozen' = [frozen EXCEPT ![client] = f]
    BY <1>1, <2>2 DEF Command
  <2>4. /\ phase' = phase /\ launch' = launch /\ args' = args /\ task' = task /\ rw' = rw
        /\ starts' = starts /\ client' = Nobody /\ sock' = sock /\ keys' = keys /\ pays' = pays
    BY <1>1 DEF Command, startVars
  <2>5. Typed'
    BY <2>3, <2>4 DEF TypeInv, Typed
  <2>6. \A e \in Daemons : e # client => frozen'[e] = frozen[e]
    BY <2>3 DEF TypeInv, Typed
  <2>7. Alive(client)
    BY <2>1 DEF TypeInv, Holds
  <2>8. \A e \in Daemons : Holds(e)'
    BY <2>4, <2>6, <2>7 DEF TypeInv, Holds, Alive
  <2>9. QED  BY <2>4, <2>5, <2>8 DEF TypeInv, Connected
<1>2. ASSUME NEW c \in Dirs, Connect(c)
      PROVE  TypeInv'
  <2>1. /\ sock[c] \in Daemons /\ task[sock[c]] = "bound" /\ client' = sock[c]
    BY <1>2 DEF Connect, Listens, TypeInv, Typed
  <2>2. QED  BY <1>2, <2>1 DEF Connect, TypeInv, Typed, Holds, Connected, Alive, startVars
<1>3. QED  BY <1>1, <1>2

LEMMA InitType == Init => TypeInv
<1> SUFFICES ASSUME Init PROVE TypeInv
  OBVIOUS
<1>1. Typed
  BY DaemonAssumption DEF Init, Typed, Phases, Tasks, Payments
<1>2. Connected /\ \A d \in Daemons : Holds(d)
  BY DEF Init, Connected, Holds, Alive, Off, Serving
<1>3. QED  BY <1>1, <1>2 DEF TypeInv

LEMMA NextType == TypeInv /\ [Next]_vars => TypeInv'
<1> SUFFICES ASSUME TypeInv, [Next]_vars PROVE TypeInv'
  OBVIOUS
<1>1. CASE UNCHANGED vars
  BY <1>1 DEF vars, startVars, sockVars, TypeInv, Typed, Holds, Connected, Alive
<1>2. CASE Next
  <2>0. plan' = plan
    BY <1>2 DEF Next
  <2>1. ASSUME NEW d \in Daemons, NEW l \in plan[d], Launch(d, l) PROVE TypeInv'
    BY <2>0, <2>1, GoUp
  <2>2. ASSUME NEW d \in Daemons, StartStep(d) PROVE TypeInv'
    BY <2>0, <2>2, StartType
  <2>3. ASSUME NEW d \in Daemons, Unmounted(d) \/ RemoveSocket(d) \/ Bind(d) PROVE TypeInv'
    BY <2>0, <2>3, SocketType
  <2>4. ASSUME NEW d \in Daemons, Exit(d) \/ Kill(d) PROVE TypeInv'
    BY <2>0, <2>4, GoOff DEF Exit, Kill
  <2>5. ASSUME Command \/ \E c \in Dirs : Connect(c) PROVE TypeInv'
    BY <2>0, <2>5, ClientType
  <2>6. QED  BY <1>2, <2>1, <2>2, <2>3, <2>4, <2>5 DEF Next
<1>3. QED  BY <1>1, <1>2

\* Every variable keeps its type; among them, a process that is not alive has
\* no control task and is neither writable nor frozen, and the file system is
\* served exactly while there is a control task.
THEOREM TypeCorrect == Spec => []TypeOK
  BY TypeInvIsTypeOK, InitType, NextType, PTL DEF Spec
-----------------------------------------------------------------------------
(* The arguments and the servers.                                          *)

Functional ==
  /\ servers = [d \in Daemons |-> servers[d]]

\* A daemon that no step is about.
Same(d) ==
  /\ phase'[d] = phase[d] /\ launch'[d] = launch[d] /\ args'[d] = args[d]
  /\ servers'[d] = servers[d] /\ keys'[d] = keys[d] /\ rw'[d] = rw[d]

\* What a step may be to the daemon it is about: it is started with a command
\* line, ends, asks for servers, reads its keys, makes the file system, or goes
\* on with all it has.
Begun(d, l) ==
  /\ ~Alive(d) /\ l \in plan[d]
  /\ Extracts(l.file, l.env) /\ Accepted(l, LoadMerged(l.flags, l.file, l.env))
  /\ phase'[d] = "servers" /\ launch'[d] = l /\ args'[d] = LoadMerged(l.flags, l.file, l.env)
  /\ servers'[d] = args'[d].server /\ rw'[d] = rw[d]
Ended(d) == phase'[d] = "off" /\ servers'[d] = <<>> /\ ~rw'[d]
Asked(d) ==
  /\ phase[d] = "servers" /\ phase'[d] = "manifest"
  /\ launch'[d] = launch[d] /\ args'[d] = args[d] /\ rw'[d] = rw[d] /\ keys'[d] = keys[d]
  /\ \E a \in ServerEvents \union {NoAnswer} :
       servers'[d] = EffectiveServers(args[d].server, IF a.ok THEN ServerUrls(a.is) ELSE <<>>)
KeysRead(d) ==
  /\ phase[d] = "keys" /\ phase'[d] = "saved"
  /\ launch'[d] = launch[d] /\ args'[d] = args[d] /\ rw'[d] = rw[d] /\ servers'[d] = servers[d]
Made(d) ==
  /\ phase[d] = "make" /\ phase'[d] = "mounting"
  /\ launch'[d] = launch[d] /\ args'[d] = args[d] /\ servers'[d] = servers[d]
  /\ keys'[d] = keys[d] /\ rw'[d] = (keys[d] /\ servers[d] # <<>> /\ ~args[d].read_only)
Continued(d) ==
  /\ Alive(d) /\ Alive(d)' /\ phase'[d] # "servers"
  /\ phase[d] \in Serving => phase'[d] \in Serving
  /\ launch'[d] = launch[d] /\ args'[d] = args[d] /\ servers'[d] = servers[d]
  /\ keys'[d] = keys[d] /\ rw'[d] = rw[d]

Fate(d) ==
  \/ Same(d) \/ Ended(d) \/ Asked(d) \/ KeysRead(d) \/ Made(d) \/ Continued(d)
  \/ \E l \in plan[d] : Begun(d, l)

\* What a step of d leaves to all others.
Spares(d) == Functional' /\ \A e \in Daemons \ {d} : Same(e)

LEMMA EndFate ==
  ASSUME TypeInv, Functional, NEW d \in Daemons, Ends(d)
  PROVE  Ended(d) /\ Spares(d)
<1>1. /\ phase' = [phase EXCEPT ![d] = "off"] /\ launch' = [launch EXCEPT ![d] = NoLaunch]
      /\ args' = [args EXCEPT ![d] = NoArgs] /\ servers' = [servers EXCEPT ![d] = <<>>]
      /\ keys' = [keys EXCEPT ![d] = FALSE] /\ rw' = [rw EXCEPT ![d] = FALSE]
  BY DEF Ends, Goto
<1>2. Functional'
  BY <1>1 DEF Functional
<1>3. QED  BY <1>1, <1>2 DEF Ended, Spares, Same, TypeInv, Typed, Functional

LEMMA LaunchFate ==
  ASSUME TypeInv, Functional, NEW d \in Daemons, NEW l \in plan[d], Launch(d, l)
  PROVE  Fate(d) /\ Spares(d)
<1> DEFINE a == LoadMerged(l.flags, l.file, l.env)
<1>1. /\ phase[d] = "off" /\ keys' = keys /\ rw' = rw
      /\ \/ UNCHANGED <<phase, launch, args, servers>>
         \/ /\ Extracts(l.file, l.env) /\ Accepted(l, a)
            /\ phase' = [phase EXCEPT ![d] = "servers"]
            /\ launch' = [launch EXCEPT ![d] = l] /\ args' = [args EXCEPT ![d] = a]
            /\ servers' = [servers EXCEPT ![d] = a.server]
  BY DEF Launch, Goto
<1> HIDE DEF a
<1>2. CASE UNCHANGED <<phase, launch, args, servers>>
  BY <1>1, <1>2 DEF Fate, Spares, Same, Functional
<1>3. CASE ~UNCHANGED <<phase, launch, args, servers>>
  <2>1. Functional'
    BY <1>1, <1>3 DEF Functional
  <2>2. Spares(d)
    BY <1>1, <1>3, <2>1 DEF Spares, Same, TypeInv, Typed, Functional
  <2>3. Begun(d, l)
    BY <1>1, <1>3 DEF Begun, Alive, Off, TypeInv, Typed, Functional, a
  <2>4. QED  BY <2>2, <2>3 DEF Fate
<1>4. QED  BY <1>2, <1>3

LEMMA StartFate ==
  ASSUME TypeInv, Functional, NEW d \in Daemons, StartStep(d)
  PROVE  Fate(d) /\ Spares(d)
<1> DEFINE On(p, q) ==
      /\ phase[d] = p /\ phase' = [phase EXCEPT ![d] = q]
      /\ launch' = launch /\ args' = args /\ rw' = rw /\ keys' = keys /\ servers' = servers
<1>1. ASSUME NEW p \in Phases \ Off, NEW q \in Phases \ (Off \union {"servers"}), On(p, q),
             p \in Serving => q \in Serving
      PROVE  Fate(d) /\ Spares(d)
  <2>1. Continued(d)
    BY <1>1 DEF Continued, Alive, Off, TypeInv, Typed
  <2>2. Spares(d)
    BY <1>1 DEF Spares, Same, Functional, TypeInv, Typed
  <2>3. QED  BY <2>1, <2>2 DEF Fate
<1>0. Typed
  BY DEF TypeInv
<1> USE DEF Goto, Phases, Serving, Off, startVars
<1>2. CASE Discover(d)
  <2>1. /\ phase[d] = "servers" /\ phase' = [phase EXCEPT ![d] = "manifest"]
        /\ launch' = launch /\ args' = args /\ rw' = rw /\ keys' = keys
    BY <1>2 DEF Discover
  <2>2. PICK a \in ServerEvents \union {NoAnswer} :
          servers' = [servers EXCEPT ![d] =
            EffectiveServers(args[d].server, IF a.ok THEN ServerUrls(a.is) ELSE <<>>)]
    BY <1>2 DEF Discover
  <2>3. Asked(d)
    BY <1>0, <2>1, <2>2 DEF Asked, Typed, Functional
  <2>4. Spares(d)
    BY <1>0, <2>1, <2>2 DEF Spares, Same, Functional, Typed
  <2>5. QED  BY <2>3, <2>4 DEF Fate
<1>3. CASE Manifest(d)
  <2>1. CASE On("manifest", "list")
    BY <1>1, <2>1
  <2>2. CASE Ends(d)
    BY <2>2, EndFate DEF Fate
  <2>3. QED  BY <1>3, <2>1, <2>2 DEF Manifest
<1>4. CASE List(d)
  <2>1. On("list", "drives")
    BY <1>4 DEF List
  <2>2. QED  BY <1>1, <2>1
<1>5. CASE Drives(d)
  <2>1. On("drives", "meta")
    BY <1>5 DEF Drives
  <2>2. QED  BY <1>1, <2>1
<1>6. CASE Metadata(d)
  <2>1. On("meta", "repos")
    BY <1>6 DEF Metadata
  <2>2. QED  BY <1>1, <2>1
<1>7. CASE Repos(d)
  <2>1. On("repos", "files")
    BY <1>7 DEF Repos
  <2>2. QED  BY <1>1, <2>1
<1>8. CASE Files(d)
  <2>1. CASE On("files", "keys")
    BY <1>1, <2>1
  <2>2. CASE Ends(d)
    BY <2>2, EndFate DEF Fate
  <2>3. QED  BY <1>8, <2>1, <2>2 DEF Files
<1>9. CASE ReadKeys(d)
  <2>1. PICK read : keys' = [keys EXCEPT ![d] = read]
    BY <1>9 DEF ReadKeys
  <2>2. /\ phase[d] = "keys" /\ phase' = [phase EXCEPT ![d] = "saved"]
        /\ launch' = launch /\ args' = args /\ rw' = rw /\ servers' = servers
    BY <1>9 DEF ReadKeys
  <2>3. KeysRead(d)
    BY <1>0, <2>2 DEF KeysRead, Typed
  <2>4. Spares(d)
    BY <1>0, <2>1, <2>2 DEF Spares, Same, Functional, Typed
  <2>5. QED  BY <2>3, <2>4 DEF Fate
<1>10. CASE Restore(d)
  <2>1. On("saved", "pay")
    BY <1>10 DEF Restore
  <2>2. QED  BY <1>1, <2>1
<1>11. CASE ChoosePayment(d)
  <2>1. On("pay", "make")
    BY <1>11 DEF ChoosePayment
  <2>2. QED  BY <1>1, <2>1
<1>12. CASE Ready(d)
  <2>1. /\ phase[d] = "make" /\ phase' = [phase EXCEPT ![d] = "mounting"]
        /\ launch' = launch /\ args' = args /\ keys' = keys /\ servers' = servers
        /\ rw' = [rw EXCEPT ![d] = keys[d] /\ servers[d] # <<>> /\ ~args[d].read_only]
    BY <1>12 DEF Ready
  <2>2. Made(d)
    BY <1>0, <2>1 DEF Made, Typed
  <2>3. Spares(d)
    BY <1>0, <2>1 DEF Spares, Same, Functional, Typed
  <2>4. QED  BY <2>2, <2>3 DEF Fate
<1>13. CASE Mounted(d)
  <2>1. On("mounting", "up")
    BY <1>13 DEF Mounted
  <2>2. QED  BY <1>1, <2>1
<1>14. CASE MountFails(d)
  BY <1>14, EndFate DEF MountFails, Fate
<1>15. QED
  BY <1>2, <1>3, <1>4, <1>5, <1>6, <1>7, <1>8, <1>9, <1>10, <1>11, <1>12, <1>13, <1>14
  DEF StartStep

\* Every step is one of these to every daemon.
LEMMA EachFate ==
  ASSUME TypeInv, Functional, [Next]_vars
  PROVE  plan' = plan /\ Functional' /\ \A d \in Daemons : Fate(d)
<1> DEFINE Still == /\ phase' = phase /\ launch' = launch /\ args' = args
                    /\ servers' = servers /\ keys' = keys /\ rw' = rw
           Goal == Functional' /\ \A d \in Daemons : Fate(d)
<1>1. ASSUME Still PROVE Goal
  BY <1>1 DEF Functional, Fate, Same
<1>2. ASSUME NEW d \in Daemons, Fate(d) /\ Spares(d) PROVE Goal
  BY <1>2 DEF Spares, Fate
<1>3. CASE UNCHANGED vars
  BY <1>1, <1>3 DEF vars, startVars
<1>4. CASE Next
  <2>0. plan' = plan
    BY <1>4 DEF Next
  <2>1. ASSUME NEW d \in Daemons, NEW l \in plan[d], Launch(d, l) PROVE Goal
    BY <1>2, <2>1, LaunchFate
  <2>2. ASSUME NEW d \in Daemons, StartStep(d) PROVE Goal
    BY <1>2, <2>2, StartFate
  <2>3. ASSUME NEW d \in Daemons, Exit(d) \/ Kill(d) PROVE Goal
    BY <1>2, <2>3, EndFate DEF Exit, Kill, Fate
  <2>4. ASSUME NEW d \in Daemons, Unmounted(d) PROVE Goal
    <3>1. /\ phase[d] = "up" /\ phase' = [phase EXCEPT ![d] = "publish"]
          /\ launch' = launch /\ args' = args /\ rw' = rw /\ keys' = keys /\ servers' = servers
      BY <2>4 DEF Unmounted, Goto, startVars
    <3>2. Continued(d)
      BY <3>1 DEF Continued, Alive, Off, Serving, TypeInv, Typed
    <3>3. Spares(d)
      BY <3>1 DEF Spares, Same, Functional, TypeInv, Typed
    <3>4. QED  BY <1>2, <3>2, <3>3 DEF Fate
  <2>5. ASSUME NEW d \in Daemons, RemoveSocket(d) \/ Bind(d) PROVE Goal
    BY <1>1, <2>5 DEF RemoveSocket, Bind, startVars
  <2>6. ASSUME Command \/ \E c \in Dirs : Connect(c) PROVE Goal
    BY <1>1, <2>6 DEF Command, Connect, startVars
  <2>7. Goal
    <3> HIDE DEF Goal
    <3> QED  BY <1>4, <2>1, <2>2, <2>3, <2>4, <2>5, <2>6 DEF Next
  <2>8. QED  BY <2>0, <2>7
<1>5. QED  BY <1>3, <1>4 DEF vars

\* A daemon that is alive has the arguments its command line, environment and
\* file make, and they were accepted.
Started(d) ==
  Alive(d) =>
    LET l == launch[d] IN
    /\ l \in plan[d]
    /\ Extracts(l.file, l.env) /\ Accepted(l, args[d])
    /\ args[d] = LoadMerged(l.flags, l.file, l.env)

ArgsInv == TypeInv /\ Functional /\ plan \in Plans /\ \A d \in Daemons : Started(d)

LEMMA InitArgs == Init => ArgsInv
<1> SUFFICES ASSUME Init PROVE ArgsInv
  OBVIOUS
<1>1. TypeInv
  BY InitType
<1>2. Functional /\ plan \in Plans /\ \A d \in Daemons : Started(d)
  BY DEF Init, Functional, Started, Alive, Off
<1>3. QED  BY <1>1, <1>2 DEF ArgsInv

LEMMA NextArgs == ArgsInv /\ [Next]_vars => ArgsInv'
<1> SUFFICES ASSUME ArgsInv, [Next]_vars PROVE ArgsInv'
  OBVIOUS
<1>1. TypeInv'
  BY NextType DEF ArgsInv
<1>2. plan' = plan /\ Functional' /\ \A d \in Daemons : Fate(d)
  BY EachFate DEF ArgsInv
<1>3. ASSUME NEW d \in Daemons
      PROVE  Started(d)'
  <2>1. CASE launch'[d] = launch[d] /\ args'[d] = args[d] /\ (Alive(d)' => Alive(d))
    BY <1>2, <2>1 DEF ArgsInv, Started
  <2>2. CASE ~Alive(d)'
    BY <2>2 DEF Started
  <2>3. CASE \E l \in plan[d] : Begun(d, l)
    BY <1>2, <2>3 DEF Started, Begun
  <2>4. Fate(d)
    BY <1>2
  <2>5. QED
    BY <2>1, <2>2, <2>3, <2>4
    DEF Fate, Same, Ended, Asked, KeysRead, Made, Continued, Alive, Off
<1>4. QED  BY <1>1, <1>2, <1>3 DEF ArgsInv

-----------------------------------------------------------------------------
(* What is found on the relays goes behind the user's own servers.         *)

\* s begins as own does, if that has anything.
BeginsAs(own, s) == own # <<>> => s # <<>> /\ s[1] = own[1]

LEMMA ServersFound ==
  ASSUME NEW a \in ServerEvents
  PROVE  ServerUrls(a.is) \in Seq(WebUrls)
<1> DEFINE T     == Seq(STRING)
           found == Tagged(a.is, "server", 2)
           named == Values(a.is, "server")
           V     == {found[k][2] : k \in DOMAIN found}
<1>1. a.is \in Seq(T)
  BY TagAssumption
<1> HIDE DEF T
<1>2. found \in Seq(T)
  BY <1>1, OnlyPicks DEF Tagged
<1>3. named = [k \in DOMAIN found |-> found[k][2]]
  BY DEF Values
<1> HIDE DEF found
<1>4. named \in Seq(V)
  BY <1>2, <1>3
<1> HIDE DEF named, V
<1>5. /\ ServerUrls(a.is) \in Seq(V)
      /\ Range(ServerUrls(a.is)) = Range(named) \cap WebUrls
  BY <1>4, OnlyKeeps DEF ServerUrls, named
<1>6. QED  BY <1>5 DEF Range

LEMMA FoundComeAfter ==
  ASSUME NEW own \in Seq(WebUrls), NEW found \in Seq(WebUrls)
  PROVE  EffectiveServers(own, found) \in Seq(WebUrls) /\ BeginsAs(own, EffectiveServers(own, found))
<1> DEFINE n == Len(found)
           X == {s \in Seq(WebUrls) : BeginsAs(own, s)}
           Step(v, k) == IF Contains(v, found[k]) THEN v ELSE Append(v, found[k])
           G == [k \in 1 .. n |-> [v \in X |-> Step(v, k)]]
           Eq(f) == f = [k \in 0 .. n |-> IF k = 0 THEN own ELSE Step(f[k - 1], k)]
           add == CHOOSE f : Eq(f)
<1>1. EffectiveServers(own, found) = add[n]
  BY DEF EffectiveServers
<1>2. n \in Nat /\ own \in X
  BY DEF BeginsAs
<1>3. ASSUME NEW k \in 1 .. n, NEW v \in X
      PROVE  Step(v, k) \in X
  <2>1. found[k] \in WebUrls
    OBVIOUS
  <2>2. v \in Seq(WebUrls) /\ BeginsAs(own, v)
    OBVIOUS
  <2>3. Append(v, found[k]) \in Seq(WebUrls) /\ BeginsAs(own, Append(v, found[k]))
    BY <2>1, <2>2, AppendProperties DEF BeginsAs
  <2>4. QED  BY <2>2, <2>3
<1> HIDE DEF n, X, Step
<1>4. \E g : Eq(g)
  <2>1. G \in [1 .. n -> [X -> X]]
    BY <1>3
  <2>2. PICK g : Iteration(n, X, own, G, g)
    <3> HIDE DEF G
    <3> QED  BY <1>2, <2>1, Iterates
  <2>3. ASSUME NEW k \in 1 .. n
        PROVE  g[k] = Step(g[k - 1], k)
    <3>1. k - 1 \in 0 .. n
      BY <1>2
    <3>2. QED  BY <2>2, <3>1 DEF Iteration
  <2>4. \A k \in 0 .. n : k = 0 \/ k \in 1 .. n
    BY <1>2
  <2>5. \A k \in 0 .. n : g[k] = IF k = 0 THEN own ELSE Step(g[k - 1], k)
    BY <2>2, <2>3, <2>4 DEF Iteration
  <2>6. QED  BY <2>2, <2>5 DEF Iteration
<1>5. Eq(add)
  <2> HIDE DEF Eq
  <2> QED  BY <1>4
<1>6. add[0] = own /\ \A k \in 1 .. n : add[k] = Step(add[k - 1], k)
  <2> HIDE DEF add
  <2> QED  BY <1>2, <1>5
<1> HIDE DEF add
<1>7. add[n] \in X
  <2> DEFINE R == {k \in 0 .. n : add[k] \in X}
  <2>1. 0 \in R
    BY <1>2, <1>6
  <2>2. \A k \in 1 .. n : k - 1 \in R => k \in R
    BY <1>2, <1>3, <1>6
  <2>3. 0 .. n \subseteq R
    <3> HIDE DEF R
    <3> QED  BY <1>2, <2>1, <2>2, IntervalInduction
  <2>4. QED  BY <1>2, <2>3
<1>8. QED  BY <1>1, <1>7 DEF X

\* The servers of a command line that is accepted are web servers.
LEMMA AcceptedAreWeb ==
  ASSUME NEW p \in Plans, NEW d \in Daemons, NEW l \in p[d], Extracts(l.file, l.env),
         Accepted(l, LoadMerged(l.flags, l.file, l.env))
  PROVE  LET a == LoadMerged(l.flags, l.file, l.env)
         IN  a.server \in Seq(WebUrls) /\ (a.read_only \/ a.server # <<>>)
<1> DEFINE a   == LoadMerged(l.flags, l.file, l.env)
           own == a.server
<1>1. own \in Seq(DOMAIN Scheme)
  BY UrlAssumption
<1>2. /\ \A k \in DOMAIN own : Scheme[own[k]] = "http"
      /\ a.read_only \/ own # <<>>
  BY DEF Accepted, Valid
<1> HIDE DEF own
<1>3. \A k \in DOMAIN own : own[k] \in WebUrls
  BY <1>1, <1>2, UrlAssumption
<1>4. own \in Seq(WebUrls)
  BY <1>1, <1>3
<1>5. QED  BY <1>2, <1>4 DEF own

LEMMA OwnAreWeb ==
  ASSUME ArgsInv, NEW d \in Daemons, Alive(d)
  PROVE  /\ args[d].server \in Seq(WebUrls)
         /\ args[d].read_only \/ args[d].server # <<>>
<1>1. plan \in Plans /\ Started(d)
  BY DEF ArgsInv
<1>2. QED  BY <1>1, AcceptedAreWeb DEF Started

\* Before the relays are asked the servers are the user's own, after that they
\* begin with them; and read-write is what has a key and a server.
Served(d) ==
  /\ servers[d] \in Seq(WebUrls)
  /\ ~Alive(d) => ~rw[d]
  /\ Alive(d) => BeginsAs(args[d].server, servers[d])
  /\ phase[d] = "servers" => servers[d] = args[d].server
  /\ rw[d] => phase[d] \in Serving /\ keys[d] /\ servers[d] # <<>> /\ ~args[d].read_only

ServerInv == ArgsInv /\ \A d \in Daemons : Served(d)

LEMMA InitServers == Init => ServerInv
<1> SUFFICES ASSUME Init PROVE ServerInv
  OBVIOUS
<1>1. ArgsInv
  BY InitArgs
<1>2. \A d \in Daemons : Served(d)
  BY DEF Init, Served, Alive, Off
<1>3. QED  BY <1>1, <1>2 DEF ServerInv

LEMMA NextServers == ServerInv /\ [Next]_vars => ServerInv'
<1> SUFFICES ASSUME ServerInv, [Next]_vars PROVE ServerInv'
  OBVIOUS
<1>1. ArgsInv /\ ArgsInv'
  BY NextArgs DEF ServerInv
<1>2. \A d \in Daemons : Fate(d)
  BY <1>1, EachFate DEF ArgsInv
<1>3. ASSUME NEW d \in Daemons
      PROVE  Served(d)'
  <2>0. Served(d) /\ Fate(d)
    BY <1>2 DEF ServerInv
  <2> USE DEF Alive, Off
  <2>1. CASE Same(d)
    BY <2>0, <2>1 DEF Served, Same
  <2>2. CASE Ended(d)
    BY <2>2 DEF Served, Ended, Serving
  <2>3. CASE \E l \in plan[d] : Begun(d, l)
    <3>1. /\ phase'[d] = "servers" /\ servers'[d] = args'[d].server /\ ~rw'[d]
      BY <2>0, <2>3 DEF Served, Begun
    <3>2. args'[d].server \in Seq(WebUrls)
      BY <1>1, <2>3, AcceptedAreWeb DEF ArgsInv, Begun
    <3>3. QED  BY <3>1, <3>2 DEF Served, BeginsAs
  <2>4. CASE Asked(d)
    <3>1. PICK a \in ServerEvents \union {NoAnswer} :
            servers'[d] = EffectiveServers(args[d].server, IF a.ok THEN ServerUrls(a.is) ELSE <<>>)
      BY <2>4 DEF Asked
    <3> DEFINE found == IF a.ok THEN ServerUrls(a.is) ELSE <<>>
    <3>2. found \in Seq(WebUrls)
      BY ServersFound DEF NoAnswer
    <3>3. args[d].server \in Seq(WebUrls)
      BY <1>1, <2>4, OwnAreWeb DEF Asked
    <3>4. servers'[d] \in Seq(WebUrls) /\ BeginsAs(args[d].server, servers'[d])
      <4> HIDE DEF found
      <4>1. servers'[d] = EffectiveServers(args[d].server, found)
        BY <3>1 DEF found
      <4>2. QED  BY <3>2, <3>3, <4>1, FoundComeAfter
    <3>5. ~rw'[d]
      BY <2>0, <2>4 DEF Served, Asked, Serving
    <3>6. QED  BY <2>4, <3>4, <3>5 DEF Served, Asked, BeginsAs
  <2>5. CASE KeysRead(d)
    BY <2>0, <2>5 DEF Served, KeysRead, Serving
  <2>6. CASE Made(d)
    BY <2>0, <2>6 DEF Served, Made, Serving
  <2>7. CASE Continued(d)
    BY <2>0, <2>7 DEF Served, Continued
  <2>8. QED  BY <2>0, <2>1, <2>2, <2>3, <2>4, <2>5, <2>6, <2>7 DEF Fate
<1>4. QED  BY <1>1, <1>3 DEF ServerInv

\* Whatever the relays answer, a mount asks web servers only, and a read-write
\* mount has a key and uploads to the first server the user gave
\* (main.rs:262, discovery.rs, README.md:203).
THEOREM UploadsToTheUsers == Spec => []UploadServerIsUsers
<1>1. ServerInv => UploadServerIsUsers
  <2> SUFFICES ASSUME ServerInv, NEW d \in Daemons
               PROVE  /\ Range(servers[d]) \subseteq WebUrls
                      /\ rw[d] => /\ args[d].server # <<>> /\ servers[d][1] = args[d].server[1]
                                  /\ keys[d] /\ ~args[d].read_only
    BY DEF UploadServerIsUsers
  <2>1. Served(d) /\ ArgsInv
    BY DEF ServerInv
  <2>2. Range(servers[d]) \subseteq WebUrls
    BY <2>1 DEF Served, Range
  <2>3. rw[d] => Alive(d)
    BY <2>1 DEF Served
  <2>4. rw[d] => args[d].server # <<>>
    BY <2>1, <2>3, OwnAreWeb DEF Served
  <2>5. QED  BY <2>1, <2>2, <2>3, <2>4 DEF Served, BeginsAs
<1>2. QED  BY <1>1, InitServers, NextServers, PTL DEF Spec

-----------------------------------------------------------------------------
(* Names.                                                                  *)

Bad == {"/", "\\"} \union Controls

\* No two dots stand together.
Undotted(s) == \A k \in 2 .. Len(s) : ~(s[k] = "." /\ s[k - 1] = ".")

\* The bounds are numbers.
LEMMA Limits == MaxBytes \in Nat /\ 1 <= MaxBytes /\ HashLength \in Nat
<1>1. MaxBytes \in Nat \ {0} /\ HashLength \in Nat
  BY LetterAssumption
<1>2. QED  BY <1>1

\* A set of numbers that is not empty and has a bound has a greatest.
LEMMA GreatestNumber ==
  ASSUME NEW n \in Nat, NEW S \in SUBSET (0 .. n), S # {}
  PROVE  \E k \in S : \A j \in S : j <= k
<1> DEFINE R == {n - k : k \in S}
<1>0. \A k \in S : k \in 0 .. n
  OBVIOUS
<1>1. R \in SUBSET Nat /\ R # {}
  <2>1. \A k \in 0 .. n : n - k \in Nat
    OBVIOUS
  <2>2. QED  BY <1>0, <2>1
<1>2. PICK m \in R : \A j \in R : m <= j
  <2> HIDE DEF R
  <2> QED  BY <1>1, LeastNumber
<1>3. PICK k \in S : m = n - k
  BY <1>2
<1>4. \A j \in S : n - k <= n - j
  <2>1. \A j \in S : n - j \in R
    OBVIOUS
  <2> HIDE DEF R
  <2>2. QED  BY <1>2, <1>3, <2>1
<1> HIDE DEF R
<1>5. \A i, j \in 0 .. n : n - i <= n - j => j <= i
  OBVIOUS
<1>6. \A j \in S : j <= k
  BY <1>0, <1>4, <1>5
<1>7. QED  BY <1>6

\* The bytes of a name: one for each character at least, and one only where none
\* is wide.
LEMMA BytesAre ==
  ASSUME NEW T, NEW s \in Seq(T)
  PROVE  /\ Bytes(s) \in Nat
         /\ (\A k \in DOMAIN s : s[k] \notin Wide) => Bytes(s) = Len(s)
<1> DEFINE W == {k \in DOMAIN s : s[k] \in Wide}
<1>1. IsFiniteSet(1 .. Len(s))
  BY FS_Interval
<1>2. W \subseteq 1 .. Len(s)
  OBVIOUS
<1>3. IsFiniteSet(W)
  BY <1>1, <1>2, FS_Subset
<1>4. Cardinality(W) \in Nat
  BY <1>3, FS_CardinalityType
<1>5. (\A k \in DOMAIN s : s[k] \notin Wide) => Cardinality(W) = 0
  <2>1. (\A k \in DOMAIN s : s[k] \notin Wide) => W = {}
    OBVIOUS
  <2>2. QED  BY <2>1, FS_EmptySet
<1>6. Bytes(s) = Len(s) + Cardinality(W)
  BY DEF Bytes
<1> HIDE DEF W
<1>7. QED  BY <1>4, <1>5, <1>6

\* The word for what has no name is a name, and so is that for what has no type.
LEMMA WordsAreNames ==
  ASSUME NEW w \in {"unnamed", "unknown"}
  PROVE  IsName(<<w>>)
<1>0. w \notin Wide /\ w \notin Controls /\ w # "/" /\ w # "\\" /\ w # "_"
  <2>1. {"unnamed", "unknown"} \intersect (Wide \union Controls) = {}
    BY LetterAssumption
  <2>2. QED  BY <2>1
<1>1. /\ <<w>> \in Seq({w}) /\ Len(<<w>>) = 1 /\ <<w>>[1] = w
      /\ DOMAIN <<w>> = {1}
  OBVIOUS
<1>2. Range(<<w>>) = {w}
  BY <1>1 DEF Range
<1>3. Bytes(<<w>>) = 1
  BY <1>0, <1>1, BytesAre
<1>4. ~Hidden(<<w>>)
  BY <1>0, <1>2 DEF Hidden
<1>5. Range(<<w>>) \intersect Bad = {}
  BY <1>0, <1>2 DEF Bad
<1>6. 1 <= MaxBytes
  BY Limits
<1>7. QED  BY <1>1, <1>3, <1>4, <1>5, <1>6 DEF IsName, Bad

\* Of two dots together one is in a pair, and what is in a pair is a dot beside
\* a dot.
LEMMA PairsCover ==
  ASSUME NEW T, NEW s \in Seq(T)
  PROVE  /\ \A k \in 2 .. Len(s) : s[k] = "." /\ s[k - 1] = "." => Paired(s) \cap {k - 1, k} # {}
         /\ Undotted(s) => Paired(s) = {}
<1> DEFINE n == Len(s)
           X == BOOLEAN
           Step(v, k) == k > 1 /\ s[k] = "." /\ s[k - 1] = "." /\ ~v
           G == [k \in 1 .. n |-> [v \in X |-> Step(v, k)]]
           Eq(f) == f = [k \in 0 .. n |-> Step(f[k - 1], k)]
           second == CHOOSE f : Eq(f)
<1>1. Paired(s) = {k \in DOMAIN s : second[k] \/ (k < n /\ second[k + 1])}
  BY DEF Paired
<1>2. n \in Nat /\ DOMAIN s = 1 .. n
  OBVIOUS
<1>3. \A k \in 1 .. n, v \in X : Step(v, k) \in X
  OBVIOUS
<1>4. \A v : ~Step(v, 0)
  OBVIOUS
<1>5. \A v, k : Step(v, k) <=> k > 1 /\ s[k] = "." /\ s[k - 1] = "." /\ ~v
  OBVIOUS
<1>5a. \A v, k : Step(v, k) \in BOOLEAN
  OBVIOUS
<1> HIDE DEF n, Step
<1>6. \E g : Eq(g)
  <2>1. G \in [1 .. n -> [X -> X]]
    BY <1>3
  <2>2. PICK g : Iteration(n, X, FALSE, G, g)
    <3> HIDE DEF G, X
    <3>1. FALSE \in X
      BY DEF X
    <3> QED  BY <1>2, <2>1, <3>1, Iterates
  <2>3. ASSUME NEW k \in 1 .. n
        PROVE  g[k] = Step(g[k - 1], k)
    <3>1. k - 1 \in 0 .. n
      BY <1>2
    <3>2. QED  BY <2>2, <3>1 DEF Iteration
  <2>4. \A k \in 0 .. n : k = 0 \/ k \in 1 .. n
    BY <1>2
  <2>5. \A k \in 0 .. n : g[k] = Step(g[k - 1], k)
    <3>1. g[0] = Step(g[0 - 1], 0)
      BY <1>4, <1>5a, <2>2 DEF Iteration
    <3>2. QED  BY <2>3, <2>4, <3>1
  <2>6. QED  BY <2>2, <2>5 DEF Iteration
<1>7. Eq(second)
  <2> HIDE DEF Eq
  <2> QED  BY <1>6
<1>8. \A k \in 0 .. n : second[k] = Step(second[k - 1], k)
  <2> HIDE DEF second
  <2> QED  BY <1>7
<1> HIDE DEF second
<1>9. \A k \in 1 .. n : second[k] <=> k > 1 /\ s[k] = "." /\ s[k - 1] = "." /\ ~second[k - 1]
  <2>1. \A k \in 1 .. n : k \in 0 .. n
    BY <1>2
  <2>2. QED  BY <1>5, <1>8, <2>1
<1>10. ASSUME NEW k \in 2 .. n, s[k] = ".", s[k - 1] = "."
       PROVE  Paired(s) \cap {k - 1, k} # {}
  <2>1. k \in 1 .. n /\ k > 1 /\ k - 1 \in 1 .. n
    BY <1>2
  <2>2. CASE second[k - 1]
    BY <1>1, <1>2, <2>1, <2>2
  <2>3. CASE ~second[k - 1]
    BY <1>1, <1>2, <1>9, <1>10, <2>1, <2>3
  <2>4. QED  BY <2>2, <2>3
<1>11. ASSUME Undotted(s)
       PROVE  Paired(s) = {}
  <2>1. \A k \in 1 .. n : ~second[k]
    <3> SUFFICES ASSUME NEW k \in 1 .. n, second[k]
                 PROVE  FALSE
      OBVIOUS
    <3>1. k > 1 /\ s[k] = "." /\ s[k - 1] = "."
      BY <1>9
    <3>2. k \in 2 .. Len(s)
      BY <1>2, <3>1 DEF n
    <3>3. QED  BY <1>11, <3>1, <3>2 DEF Undotted
  <2>2. \A k \in 1 .. n : k < n => k + 1 \in 1 .. n
    BY <1>2
  <2>3. QED  BY <1>1, <1>2, <2>1, <2>2
<1>12. QED  BY <1>10, <1>11 DEF n

\* After NoDotDot no two dots stand together, and what had none is left alone.
LEMMA NoDotDotIs ==
  ASSUME NEW T, NEW s \in Seq(T)
  PROVE  /\ NoDotDot(s) \in Seq(T \union {"_"}) /\ Len(NoDotDot(s)) = Len(s)
         /\ \A k \in 1 .. Len(s) : NoDotDot(s)[k] \in {s[k], "_"}
         /\ Undotted(NoDotDot(s))
         /\ Undotted(s) => NoDotDot(s) = s
<1> DEFINE P == Paired(s)
           t == NoDotDot(s)
<1>0. Len(s) \in Nat /\ DOMAIN s = 1 .. Len(s)
  OBVIOUS
<1>1. t = [k \in 1 .. Len(s) |-> IF k \in P THEN "_" ELSE s[k]]
  BY DEF NoDotDot
<1>2. /\ \A k \in 2 .. Len(s) : s[k] = "." /\ s[k - 1] = "." => P \cap {k - 1, k} # {}
      /\ Undotted(s) => P = {}
  BY PairsCover
<1> HIDE DEF P, t
<1>3. t \in Seq(T \union {"_"}) /\ Len(t) = Len(s)
  <2>1. \A k \in 1 .. Len(s) : s[k] \in T
    OBVIOUS
  <2> DEFINE U == T \union {"_"}
             n == Len(s)
  <2>2. \A k \in 1 .. n : t[k] \in U
    BY <1>1, <2>1
  <2>3. t = [k \in 1 .. n |-> t[k]] /\ n \in Nat
    BY <1>0, <1>1
  <2> HIDE DEF U, n
  <2>4. t \in Seq(U) /\ Len(t) = n
    BY <2>2, <2>3
  <2>5. QED  BY <2>4 DEF U, n
<1>4. \A k \in 1 .. Len(s) : t[k] \in {s[k], "_"}
  BY <1>1
<1>5. Undotted(t)
  <2> SUFFICES ASSUME NEW k \in 2 .. Len(s), t[k] = ".", t[k - 1] = "."
               PROVE  FALSE
    BY <1>3 DEF Undotted
  <2>1. k \in 1 .. Len(s) /\ k - 1 \in 1 .. Len(s)
    BY <1>0
  <2>2. k \notin P /\ k - 1 \notin P /\ s[k] = "." /\ s[k - 1] = "."
    BY <1>1, <2>1
  <2>3. P \cap {k - 1, k} # {}
    BY <1>2, <2>2
  <2>4. k - 1 \in P \/ k \in P
    BY <2>3
  <2>5. QED  BY <2>2, <2>4
<1>6. Undotted(s) => t = s
  <2>1. s = [k \in 1 .. Len(s) |-> s[k]]
    OBVIOUS
  <2>2. P = {} => t = [k \in 1 .. Len(s) |-> s[k]]
    BY <1>1
  <2>3. QED  BY <1>2, <2>1, <2>2
<1>7. QED  BY <1>3, <1>4, <1>5, <1>6 DEF t

\* Shortened leaves as much of the beginning as fits, and all if that does.
LEMMA ShortenedIs ==
  ASSUME NEW T, NEW s \in Seq(T)
  PROVE  /\ \E k \in 0 .. Len(s) : Shortened(s) = SubSeq(s, 1, k)
         /\ Bytes(Shortened(s)) <= MaxBytes
         /\ Bytes(s) <= MaxBytes => Shortened(s) = s
<1> DEFINE n == Len(s)
           Fits(k) == Bytes(SubSeq(s, 1, k)) <= MaxBytes
           fits == {k \in 0 .. n : Fits(k)}
           top == CHOOSE k \in fits : \A j \in fits : j <= k
<1>0. n \in Nat /\ MaxBytes \in Nat /\ 0 <= MaxBytes
  BY Limits
<1>1. Shortened(s) = SubSeq(s, 1, top)
  BY DEF Shortened
<1>2. 0 \in fits
  <2>1. SubSeq(s, 1, 0) = <<>>
    OBVIOUS
  <2>2. <<>> \in Seq(T) /\ Len(<<>>) = 0 /\ \A k \in DOMAIN <<>> : FALSE
    OBVIOUS
  <2>3. Bytes(<<>>) = 0
    <3> DEFINE e == <<>>
    <3>1. e \in Seq(T) /\ Len(e) = 0 /\ \A k \in DOMAIN e : e[k] \notin Wide
      BY <2>2
    <3> HIDE DEF e
    <3>2. Bytes(e) = 0
      BY <3>1, BytesAre
    <3>3. QED  BY <3>2 DEF e
  <2>4. Fits(0)
    BY <1>0, <2>1, <2>3
  <2> HIDE DEF Fits, n
  <2>5. QED  BY <1>0, <2>4
<1>3. fits \in SUBSET (0 .. n) /\ fits # {}
  BY <1>2
<1>4. top \in fits /\ \A j \in fits : j <= top
  <2> HIDE DEF fits
  <2> QED  BY <1>0, <1>3, GreatestNumber
<1> HIDE DEF top
<1>5. top \in 0 .. n /\ Bytes(SubSeq(s, 1, top)) <= MaxBytes
  BY <1>4
<1>6. ASSUME Bytes(s) <= MaxBytes
      PROVE  SubSeq(s, 1, top) = s
  <2>1. SubSeq(s, 1, n) = s
    BY SubSeqFull
  <2>2. n \in fits
    <3>1. Fits(n)
      BY <1>6, <2>1
    <3> HIDE DEF Fits, n
    <3>2. QED  BY <1>0, <3>1
  <2> HIDE DEF fits
  <2>3. n <= top
    BY <1>4, <2>2
  <2> HIDE DEF n
  <2>4. top = n
    BY <1>0, <1>5, <2>3
  <2>5. QED  BY <2>1, <2>4
<1>7. QED  BY <1>1, <1>5, <1>6

\* The beginning of a name has its characters.
LEMMA BeginningIs ==
  ASSUME NEW T, NEW s \in Seq(T), NEW k \in 0 .. Len(s)
  PROVE  /\ SubSeq(s, 1, k) \in Seq(T) /\ Len(SubSeq(s, 1, k)) = k
         /\ \A i \in 1 .. k : SubSeq(s, 1, k)[i] = s[i]
<1> DEFINE b == SubSeq(s, 1, k)
           n == Len(s)
<1>0. n \in Nat /\ k \in Nat /\ k <= n
  OBVIOUS
<1>1. CASE k = 0
  <2>1. b = <<>>
    BY <1>1
  <2>2. QED  BY <1>1, <2>1
<1>2. CASE k # 0
  <2>1. 1 \in 1 .. n + 1 /\ k \in 0 .. n
    BY <1>0
  <2>2. /\ b \in Seq(T)
        /\ Len(b) = IF 1 <= k THEN k - 1 + 1 ELSE 0
        /\ \A i \in 1 .. k - 1 + 1 : b[i] = s[1 + i - 1]
    BY <2>1, SubSeqProperties
  <2> HIDE DEF b, n
  <2>3. 1 <= k /\ k - 1 + 1 = k /\ \A i \in 1 .. k : 1 + i - 1 = i
    BY <1>0, <1>2
  <2>4. /\ b \in Seq(T) /\ Len(b) = k /\ \A i \in 1 .. k : b[i] = s[i]
    BY <2>2, <2>3
  <2>5. QED  BY <2>4 DEF b
<1>3. QED  BY <1>1, <1>2

\* What the tree makes of a name is a name, and of a name itself.
LEMMA SanitizedIs ==
  ASSUME NEW T, NEW s \in Seq(T)
  PROVE  /\ SanitizePathComponent(s) \in Seq(T \union {"_", "unnamed"})
         /\ IsName(SanitizePathComponent(s))
         /\ IsName(s) => SanitizePathComponent(s) = s
<1> DEFINE U   == T \union {"_", "unnamed"}
           r   == Replaced(s)
           w   == NoDotDot(r)
           cut == Shortened(w)
           n   == Len(s)
<1>0. n \in Nat /\ DOMAIN s = 1 .. n /\ s = [k \in 1 .. n |-> s[k]] /\ \A k \in 1 .. n : s[k] \in T
  OBVIOUS
<1>1. SanitizePathComponent(s) = IF Hidden(cut) THEN Unnamed ELSE cut
  BY DEF SanitizePathComponent
<1>2. r = [k \in 1 .. n |-> IF s[k] \in Bad THEN "_" ELSE s[k]]
  BY <1>0 DEF Replaced, Bad
<1> HIDE DEF r
<1>3. r \in Seq(U) /\ Len(r) = n
  <2>1. \A k \in 1 .. n : r[k] \in U
    BY <1>0, <1>2
  <2>2. r = [k \in 1 .. n |-> r[k]]
    BY <1>2
  <2> HIDE DEF U, n
  <2>3. QED  BY <1>0, <2>1, <2>2
<1>4. /\ w \in Seq(U \union {"_"}) /\ Len(w) = n
      /\ \A k \in 1 .. n : w[k] \in {r[k], "_"}
      /\ Undotted(w)
      /\ Undotted(r) => w = r
  BY <1>3, NoDotDotIs
<1>5. U \union {"_"} = U
  OBVIOUS
<1> HIDE DEF w, U
<1>6. PICK k \in 0 .. n : cut = SubSeq(w, 1, k)
  BY <1>4, ShortenedIs
<1>7. /\ cut \in Seq(U) /\ Len(cut) = k
      /\ \A i \in 1 .. k : cut[i] = w[i]
  <2>1. w \in Seq(U) /\ k \in 0 .. Len(w)
    BY <1>4, <1>5, <1>6
  <2>2. cut = SubSeq(w, 1, k)
    BY <1>6
  <2> HIDE DEF cut, n
  <2>3. QED  BY <2>1, <2>2, BeginningIs
<1>8. Bytes(cut) <= MaxBytes /\ (Bytes(w) <= MaxBytes => cut = w)
  BY <1>4, <1>5, ShortenedIs
<1> HIDE DEF cut
<1>9. Range(cut) \cap Bad = {}
  <2>1. "_" \notin Bad
    BY LetterAssumption DEF Bad
  <2>2. \A i \in 1 .. n : w[i] \notin Bad
    BY <1>2, <1>4, <2>1
  <2>3. \A i \in 1 .. k : i \in 1 .. n
    BY <1>0, <1>6
  <2>4. QED  BY <1>7, <2>2, <2>3 DEF Range
<1>10. Undotted(cut)
  <2> SUFFICES ASSUME NEW i \in 2 .. k, cut[i] = ".", cut[i - 1] = "."
               PROVE  FALSE
    BY <1>7 DEF Undotted
  <2>1. i \in 1 .. k /\ i - 1 \in 1 .. k /\ i \in 2 .. n
    BY <1>0, <1>6
  <2>2. w[i] = "." /\ w[i - 1] = "."
    BY <1>7, <2>1
  <2>3. QED  BY <1>4, <2>1, <2>2 DEF Undotted
<1>11. IsName(SanitizePathComponent(s))
  <2>1. CASE Hidden(cut)
    BY <1>1, <2>1, WordsAreNames DEF Unnamed
  <2>2. CASE ~Hidden(cut)
    BY <1>1, <1>8, <1>9, <1>10, <2>2 DEF IsName, Undotted, Bad
  <2>3. QED  BY <2>1, <2>2
<1>12. SanitizePathComponent(s) \in Seq(U)
  <2>1. Unnamed \in Seq(U)
    BY DEF Unnamed, U
  <2>2. QED  BY <1>1, <1>7, <2>1
<1>13. ASSUME IsName(s)
       PROVE  SanitizePathComponent(s) = s
  <2>1. /\ ~Hidden(s) /\ Bytes(s) <= MaxBytes /\ Undotted(s)
        /\ Range(s) \cap Bad = {}
    BY <1>13 DEF IsName, Undotted, Bad
  <2>2. \A i \in 1 .. n : s[i] \notin Bad
    BY <1>0, <2>1 DEF Range
  <2>3. r = s
    BY <1>0, <1>2, <2>2
  <2>4. w = s
    BY <1>4, <2>1, <2>3
  <2>5. QED  BY <1>1, <1>8, <2>1, <2>4
<1>14. QED  BY <1>11, <1>12, <1>13 DEF U

\* Nothing is no name.
LEMMA NoNameIsEmpty == \A s : IsName(s) => s # <<>>
<1> SUFFICES ASSUME NEW s, s = <<>>
             PROVE  ~IsName(s)
  OBVIOUS
<1>1. Range(s) = {}
  BY DEF Range
<1>2. QED  BY <1>1 DEF IsName, Hidden

\* The same of the name of a type's directory.
LEMMA MimeIs ==
  ASSUME NEW T, NEW s \in Seq(T)
  PROVE  /\ SanitizeMimeForPath(s) \in Seq(T \union {"_", "unnamed", "unknown"})
         /\ IsName(SanitizeMimeForPath(s))
         /\ IsName(s) => SanitizeMimeForPath(s) = s
<1> DEFINE U == T \union {"_", "unnamed", "unknown"}
           n == Len(s)
           r == [k \in DOMAIN s |-> IF s[k] = "/" THEN "_" ELSE s[k]]
<1>1. CASE s = <<>>
  <2>1. SanitizeMimeForPath(s) = Unknown /\ Unknown \in Seq(U)
    BY <1>1 DEF SanitizeMimeForPath, Unknown
  <2>2. IsName(Unknown)
    BY WordsAreNames DEF Unknown
  <2>3. ~IsName(s)
    BY <1>1, NoNameIsEmpty
  <2>4. QED  BY <2>1, <2>2, <2>3
<1>2. CASE s # <<>>
  <2>0. n \in Nat /\ DOMAIN s = 1 .. n /\ s = [k \in 1 .. n |-> s[k]] /\ \A k \in 1 .. n : s[k] \in T
    OBVIOUS
  <2>1. SanitizeMimeForPath(s) = SanitizePathComponent(r)
    BY <1>2 DEF SanitizeMimeForPath
  <2>2. r = [k \in 1 .. n |-> IF s[k] = "/" THEN "_" ELSE s[k]]
    BY <2>0
  <2> HIDE DEF r
  <2>3. r \in Seq(U)
    <3>1. \A k \in 1 .. n : r[k] \in U
      BY <2>0, <2>2
    <3>2. r = [k \in 1 .. n |-> r[k]]
      BY <2>2
    <3> HIDE DEF U, n
    <3>3. QED  BY <2>0, <3>1, <3>2
  <2>4. U \union {"_", "unnamed"} = U
    OBVIOUS
  <2>5. SanitizePathComponent(r) \in Seq(U) /\ IsName(SanitizePathComponent(r))
    <3> HIDE DEF U
    <3> QED  BY <2>3, <2>4, SanitizedIs
  <2>6. ASSUME IsName(s)
        PROVE  SanitizePathComponent(r) = s
    <3>1. \A k \in 1 .. n : s[k] # "/"
      BY <2>0, <2>6 DEF IsName, Range
    <3>2. r = s
      BY <2>0, <2>2, <3>1
    <3>3. QED  BY <2>6, <3>2, SanitizedIs
  <2>7. QED  BY <2>1, <2>5, <2>6
<1>3. QED  BY <1>1, <1>2

\* Whatever a name is made of, what the tree calls it is safe.
LEMMA SafeNames ==
  ASSUME given \in Seq(Chars)
  PROVE  NamesSafe
  BY SanitizedIs, MimeIs DEF NamesSafe

\* A host that is one is found in every URL it stands in, and kept.
LEMMA HostIs ==
  ASSUME NEW T, NEW s \in Seq(T), IsName(s), IsHost(s), NEW rest \in Seq(T),
         rest = <<>> \/ rest[1] \in {":", "/", "?", "#"}
  PROVE  HostPart(s \o rest) = s
<1> DEFINE u == s \o rest
           Marks == {"/", ":", "?", "#"}
           ends == {k \in DOMAIN u : u[k] \in Marks}
           n == Len(s)
           m == Len(rest)
<1>0. n \in Nat /\ m \in Nat
  OBVIOUS
<1>1. /\ u \in Seq(T) /\ Len(u) = n + m /\ DOMAIN u = 1 .. n + m
      /\ \A k \in 1 .. n : u[k] = s[k]
      /\ \A k \in 1 .. m : u[n + k] = rest[k]
  OBVIOUS
<1>2. \A k \in 1 .. n : s[k] \notin Marks
  <2>1. Range(s) \cap (HostUnsafe \union {":", "/", "?", "#"}) = {}
    BY DEF IsHost
  <2>2. DOMAIN s = 1 .. n
    OBVIOUS
  <2> HIDE DEF n
  <2>3. QED  BY <2>1, <2>2 DEF Range
<1>3. HostPart(u) = IF ends = {} THEN u
                    ELSE SubSeq(u, 1, (CHOOSE k \in ends : \A j \in ends : k <= j) - 1)
  BY DEF HostPart
<1> HIDE DEF u
<1>4. CASE rest = <<>>
  <2>1. m = 0 /\ u = s
    BY <1>4 DEF u
  <2>2. ends = {}
    BY <1>0, <1>1, <1>2, <2>1
  <2>3. QED  BY <1>3, <2>1, <2>2 DEF u
<1>5. CASE rest # <<>>
  <2>1. m >= 1 /\ rest[1] \in Marks
    <3>1. m # 0
      BY <1>5
    <3>2. QED  BY <1>0, <1>5, <3>1
  <2> DEFINE first == CHOOSE k \in ends : \A j \in ends : k <= j
  <2> HIDE DEF n, m, Marks
  <2>2. n + 1 \in ends /\ \A j \in ends : n + 1 <= j
    <3>1. n + 1 \in 1 .. n + m /\ 1 \in 1 .. m
      BY <1>0, <2>1
    <3>2. u[n + 1] = rest[1]
      BY <1>1, <3>1
    <3>3. ASSUME NEW j \in ends
          PROVE  n + 1 <= j
      <4>1. j \in 1 .. n + m /\ u[j] \in Marks
        BY <1>1
      <4>2. j \notin 1 .. n
        BY <1>1, <1>2, <4>1
      <4>3. QED  BY <1>0, <4>1, <4>2
    <3>4. QED  BY <1>1, <2>1, <3>1, <3>2, <3>3
  <2>3. \A j \in ends : j \in Int
    BY <1>0, <1>1
  <2>4. first \in ends /\ \A j \in ends : first <= j
    <3> HIDE DEF ends
    <3> QED  BY <2>2
  <2>5. first = n + 1
    <3> HIDE DEF ends, first
    <3>1. first <= n + 1 /\ n + 1 <= first /\ first \in Int
      BY <2>2, <2>3, <2>4
    <3>2. QED  BY <1>0, <3>1
  <2>6. first - 1 = n
    <3> HIDE DEF first
    <3> QED  BY <1>0, <2>5
  <2>7. HostPart(u) = SubSeq(u, 1, n)
    <3>1. HostPart(u) = SubSeq(u, 1, first - 1)
      BY <1>3, <2>2
    <3> HIDE DEF first
    <3>2. QED  BY <2>6, <3>1
  <2>8. SubSeq(u, 1, n) = s
    <3>1. n \in 0 .. Len(u)
      BY <1>0, <1>1
    <3>2. /\ SubSeq(u, 1, n) \in Seq(T) /\ Len(SubSeq(u, 1, n)) = n
          /\ \A i \in 1 .. n : SubSeq(u, 1, n)[i] = u[i]
      BY <1>1, <3>1, BeginningIs
    <3>3. s \in Seq(T) /\ Len(s) = n
      BY DEF n
    <3>4. QED  BY <1>1, <3>2, <3>3
  <2>9. QED  BY <2>7, <2>8 DEF u
<1>6. QED  BY <1>4, <1>5

\* What SanitizeHostname gives is a sequence, whatever it is given.
LEMMA HostnameType ==
  ASSUME NEW T, NEW s \in Seq(T)
  PROVE  SanitizeHostname(s) \in Seq(T \union {"_", "unknown", "panic"})
<1> DEFINE U    == T \union {"_", "unknown", "panic"}
           bare == StripScheme(s)
           host == HostPart(bare)
           mask == [k \in DOMAIN host |-> IF host[k] \in HostUnsafe THEN "_" ELSE host[k]]
           kept == NoDotDot(mask)
           cut  == Shortened(kept)
<1>1. bare \in Seq(T)
  <2>1. s # <<>> => Tail(s) \in Seq(T)
    OBVIOUS
  <2>2. QED  BY <2>1 DEF StripScheme
<1>2. \E k \in 0 .. Len(bare) : host = SubSeq(bare, 1, k)
  <2> DEFINE Marks == {"/", ":", "?", "#"}
             ends == {k \in DOMAIN bare : bare[k] \in Marks}
  <2> HIDE DEF bare
  <2>0. Len(bare) \in Nat /\ DOMAIN bare = 1 .. Len(bare)
    BY <1>1
  <2>1. host = IF ends = {} THEN bare
               ELSE SubSeq(bare, 1, (CHOOSE k \in ends : \A j \in ends : k <= j) - 1)
    BY DEF HostPart
  <2>2. CASE ends = {}
    <3>1. SubSeq(bare, 1, Len(bare)) = bare
      BY <1>1, SubSeqFull
    <3>2. Len(bare) \in 0 .. Len(bare)
      BY <2>0
    <3>3. host = bare
      BY <2>1, <2>2
    <3> HIDE DEF host
    <3>4. QED  BY <3>1, <3>2, <3>3
  <2>3. CASE ends # {}
    <3> DEFINE first == CHOOSE k \in ends : \A j \in ends : k <= j
    <3>1. ends \in SUBSET Nat
      BY <2>0
    <3>2. first \in ends
      <4>1. \E k \in ends : \A j \in ends : k <= j
        <5> HIDE DEF ends
        <5> QED  BY <2>3, <3>1, LeastNumber
      <4> HIDE DEF ends
      <4>2. QED  BY <4>1
    <3>3. host = SubSeq(bare, 1, first - 1)
      BY <2>1, <2>3
    <3> HIDE DEF first, host
    <3>4. first \in 1 .. Len(bare)
      BY <2>0, <3>2
    <3>5. first - 1 \in 0 .. Len(bare)
      BY <2>0, <3>4
    <3>6. QED  BY <3>3, <3>5
  <2>4. QED  BY <2>2, <2>3
<1> HIDE DEF bare, host
<1>3. host \in Seq(T)
  BY <1>1, <1>2, BeginningIs
<1>4. mask \in Seq(U)
  <2> DEFINE n == Len(host)
  <2>1. n \in Nat /\ DOMAIN host = 1 .. n /\ \A k \in 1 .. n : host[k] \in T
    BY <1>3
  <2>2. \A k \in 1 .. n : mask[k] \in U
    BY <2>1
  <2>3. mask = [k \in 1 .. n |-> mask[k]]
    BY <2>1
  <2> HIDE DEF mask, U, n
  <2>4. QED  BY <2>1, <2>2, <2>3
<1>5. SanitizeHostname(s) = IF Bytes(kept) > MaxBytes /\ Bytes(cut) < MaxBytes THEN Panic
                            ELSE IF cut = <<>> THEN Unknown ELSE cut
  BY DEF SanitizeHostname, bare, host
<1> HIDE DEF mask
<1>6. U \union {"_"} = U
  OBVIOUS
<1>7. Panic \in Seq(U) /\ Unknown \in Seq(U)
  BY DEF Panic, Unknown
<1> HIDE DEF U
<1>8. kept \in Seq(U)
  BY <1>4, <1>6, NoDotDotIs
<1> HIDE DEF kept
<1>9. cut \in Seq(U)
  BY <1>8, ShortenedIs, BeginningIs
<1>10. SanitizeHostname(s) \in Seq(U)
  <2> HIDE DEF cut
  <2> QED  BY <1>5, <1>7, <1>9
<1>11. QED  BY <1>10 DEF U

\* Sanitising once more changes nothing.
LEMMA StableNames ==
  ASSUME given \in Seq(Chars)
  PROVE  NamesStable
<1>1. ASSUME NEW n \in {SanitizePathComponent(given), SanitizeMimeForPath(given),
                        ServerDir(given)}, n # Panic
      PROVE  SanitizePathComponent(n) = n
  <2>1. ASSUME NEW T, n \in Seq(T), IsName(n)
        PROVE  SanitizePathComponent(n) = n
    BY <2>1, SanitizedIs
  <2>2. CASE n = SanitizePathComponent(given)
    BY <2>1, <2>2, SanitizedIs
  <2>3. CASE n = SanitizeMimeForPath(given)
    BY <2>1, <2>3, MimeIs
  <2>4. CASE n = ServerDir(given)
    <3> DEFINE T == Chars \union {"_", "unknown", "panic"}
    <3>1. n = SanitizePathComponent(SanitizeHostname(given))
      BY <1>1, <2>4 DEF ServerDir
    <3>2. SanitizeHostname(given) \in Seq(T)
      BY HostnameType
    <3> HIDE DEF T
    <3>3. n \in Seq(T \union {"_", "unnamed"}) /\ IsName(n)
      BY <3>1, <3>2, SanitizedIs
    <3>4. QED  BY <2>1, <3>3
  <2>5. QED  BY <2>2, <2>3, <2>4
<1>2. SanitizeMimeForPath(SanitizeMimeForPath(given)) = SanitizeMimeForPath(given)
  <2> DEFINE T == Chars \union {"_", "unnamed", "unknown"}
             n == SanitizeMimeForPath(given)
  <2>1. n \in Seq(T) /\ IsName(n)
    BY MimeIs
  <2> HIDE DEF T, n
  <2>2. SanitizeMimeForPath(n) = n
    BY <2>1, MimeIs
  <2>3. QED  BY <2>2 DEF n
<1>3. ASSUME SanitizeSha256(given) # Invalid
      PROVE  SanitizeSha256(SanitizeSha256(given)) = SanitizeSha256(given)
  <2> DEFINE D == DOMAIN LowerOf
             h == [k \in DOMAIN given |-> LowerOf[given[k]]]
             n == Len(given)
  <2>1. Bytes(given) = HashLength /\ Range(given) \subseteq D /\ SanitizeSha256(given) = h
    BY <1>3 DEF SanitizeSha256
  <2>2. n \in Nat /\ DOMAIN given = 1 .. n /\ h = [k \in 1 .. n |-> LowerOf[given[k]]]
    OBVIOUS
  <2> HIDE DEF h
  <2>3. \A k \in 1 .. n : given[k] \in D
    BY <2>1, <2>2 DEF Range
  <2>4. \A c \in D : c \notin Wide /\ LowerOf[c] \in D /\ LowerOf[LowerOf[c]] = LowerOf[c]
    BY LetterAssumption
  <2>5. \A k \in 1 .. n : h[k] \in D /\ LowerOf[h[k]] = h[k] /\ h[k] \notin Wide
    BY <2>2, <2>3, <2>4
  <2>6. h \in Seq(D) /\ Len(h) = n
    <3> HIDE DEF D, n
    <3>1. h = [k \in 1 .. n |-> h[k]]
      BY <2>2
    <3>2. QED  BY <2>2, <2>5, <3>1
  <2>7. Bytes(h) = n
    <3> HIDE DEF D, n
    <3>1. \A k \in DOMAIN h : h[k] \notin Wide
      BY <2>2, <2>5
    <3>2. QED  BY <2>6, <3>1, BytesAre
  <2>8. Bytes(given) = n
    BY <2>2, <2>3, <2>4, BytesAre
  <2>9. Range(h) \subseteq D
    BY <2>2, <2>5 DEF Range
  <2>10. [k \in DOMAIN h |-> LowerOf[h[k]]] = h
    <3>1. DOMAIN h = 1 .. n /\ h = [k \in 1 .. n |-> h[k]]
      BY <2>2
    <3>2. QED  BY <2>5, <3>1
  <2>11. SanitizeSha256(h) = h
    BY <2>1, <2>7, <2>8, <2>9, <2>10 DEF SanitizeSha256
  <2>12. QED  BY <2>1, <2>11
<1>4. QED  BY <1>1, <1>2, <1>3 DEF NamesStable

\* A name that is a host is what the directory of every URL of that host is called.
LEMMA DirIsHost ==
  ASSUME NEW T, NEW s \in Seq(T), IsName(s), IsHost(s), NEW u, HostPart(StripScheme(u)) = s
  PROVE  ServerDir(u) = s
<1> DEFINE n == Len(s)
           mask == [k \in DOMAIN s |-> IF s[k] \in HostUnsafe THEN "_" ELSE s[k]]
<1>0. n \in Nat /\ DOMAIN s = 1 .. n /\ s = [k \in 1 .. n |-> s[k]]
  OBVIOUS
<1>1. /\ ~Hidden(s) /\ Bytes(s) <= MaxBytes /\ Undotted(s) /\ Bytes(s) \in Nat
  BY BytesAre DEF IsName, Undotted
<1>2. mask = s
  <2>1. \A k \in 1 .. n : s[k] \notin HostUnsafe
    BY <1>0 DEF IsHost, Range
  <2>2. QED  BY <1>0, <2>1
<1>3. NoDotDot(s) = s /\ Shortened(s) = s
  BY <1>1, NoDotDotIs, ShortenedIs
<1>4. s # <<>>
  BY NoNameIsEmpty
<1>5. SanitizeHostname(u) = s
  <2>1. ~(Bytes(s) > MaxBytes)
    BY <1>1, Limits
  <2> HIDE DEF mask
  <2>2. SanitizeHostname(u) =
          IF Bytes(NoDotDot(mask)) > MaxBytes /\ Bytes(Shortened(NoDotDot(mask))) < MaxBytes
          THEN Panic
          ELSE IF Shortened(NoDotDot(mask)) = <<>> THEN Unknown ELSE Shortened(NoDotDot(mask))
    BY DEF SanitizeHostname, mask
  <2>3. QED  BY <1>2, <1>3, <1>4, <2>1, <2>2
<1>6. SanitizePathComponent(s) = s
  BY SanitizedIs
<1>7. QED  BY <1>5, <1>6 DEF ServerDir

\* What is in order is kept.
LEMMA KeptNames ==
  ASSUME given \in Seq(Chars)
  PROVE  NamesKept
<1> SUFFICES ASSUME IsName(given)
             PROVE  /\ SanitizePathComponent(given) = given
                    /\ IsHost(given) => \A scheme \in {<<>>, <<"https://">>, <<"http://">>} :
                         \A rest \in {<<>>} \union {<<c>> \o given : c \in {":", "/", "?", "#"}} :
                           ServerDir(scheme \o given \o rest) = given
  BY DEF NamesKept
<1>1. SanitizePathComponent(given) = given
  BY SanitizedIs
<1>2. ASSUME IsHost(given), NEW scheme \in {<<>>, <<"https://">>, <<"http://">>},
             NEW rest \in {<<>>} \union {<<c>> \o given : c \in {":", "/", "?", "#"}}
      PROVE  ServerDir(scheme \o given \o rest) = given
  <2> DEFINE T == Chars \union {":", "/", "?", "#"}
             S == T \union {"https://", "http://"}
             u == scheme \o given \o rest
             v == given \o rest
  <2>1. given \in Seq(T)
    OBVIOUS
  <2>2. rest \in Seq(T) /\ (rest = <<>> \/ rest[1] \in {":", "/", "?", "#"})
    <3>1. CASE rest = <<>>
      BY <3>1
    <3>2. CASE rest # <<>>
      <4>1. PICK c \in {":", "/", "?", "#"} : rest = <<c>> \o given
        BY <3>2
      <4>2. <<c>> \in Seq(T) /\ Len(<<c>>) = 1 /\ <<c>>[1] = c
        OBVIOUS
      <4> HIDE DEF T
      <4>3. rest \in Seq(T) /\ rest[1] = c
        <5>1. <<c>> \o given \in Seq(T)
          BY <2>1, <4>2
        <5>2. (<<c>> \o given)[1] = <<c>>[1]
          BY <2>1, <4>2, ConcatProperties
        <5>3. QED  BY <4>1, <4>2, <5>1, <5>2
      <4>4. QED  BY <4>3
    <3>3. QED  BY <3>1, <3>2
  <2> HIDE DEF T
  <2>3. given # <<>> /\ Len(given) >= 1
    <3>1. given # <<>>
      BY NoNameIsEmpty
    <3>2. QED  BY <3>1
  <2>4. v \in Seq(T) /\ v # <<>> /\ Head(v) = given[1] /\ Head(given) = given[1]
    <3>1. v \in Seq(T) /\ Len(v) = Len(given) + Len(rest) /\ v[1] = given[1]
      BY <2>1, <2>2, <2>3, ConcatProperties
    <3>2. Len(v) >= 1
      BY <2>1, <2>2, <2>3, <3>1
    <3> HIDE DEF v
    <3>3. v # <<>> /\ Head(v) = v[1]
      BY <3>1, <3>2
    <3>4. Head(given) = given[1]
      BY <2>3
    <3>5. QED  BY <3>1, <3>3, <3>4
  <2>5. StripScheme(u) = v
    <3>1. CASE scheme = <<>>
      <4>1. u = v
        BY <2>1, <2>2, <3>1
      <4>2. Head(v) \notin {"https://", "http://"}
        BY <1>2, <2>4 DEF IsHost
      <4>3. QED  BY <4>1, <4>2 DEF StripScheme
    <3>2. CASE scheme # <<>>
      <4>1. PICK c \in {"https://", "http://"} : scheme = <<c>>
        BY <3>2
      <4>2. given \in Seq(S) /\ rest \in Seq(S) /\ scheme \in Seq(S) /\ v \in Seq(S)
        BY <2>1, <2>2, <2>4, <4>1
      <4>3. u = scheme \o v
        <5>1. given \in Seq(S) /\ rest \in Seq(S) /\ scheme \in Seq(S)
          BY <4>2
        <5> HIDE DEF S
        <5>2. (scheme \o given) \o rest = scheme \o (given \o rest)
          BY <5>1, ConcatAssociative
        <5>3. QED  BY <5>2
      <4> HIDE DEF u, v, S
      <4>4. u # <<>> /\ Head(u) = c /\ Tail(u) = v
        BY <4>1, <4>2, <4>3
      <4>5. QED  BY <4>4 DEF StripScheme
    <3>3. QED  BY <3>1, <3>2
  <2>6. HostPart(v) = given
    BY <1>2, <2>1, <2>2, HostIs
  <2>7. HostPart(StripScheme(u)) = given
    BY <2>5, <2>6
  <2> HIDE DEF u, v
  <2>8. ServerDir(u) = given
    BY <1>2, <2>1, <2>7, DirIsHost
  <2>9. QED  BY <2>8 DEF u
<1>3. QED  BY <1>1, <1>2

\* Of every name, however long: the tree's is safe and stays what it is, and is
\* the given one where that is in order; and every URL of a host makes the
\* directory of that host (sanitize_path_component, sanitize_mime_for_path,
\* sanitize_hostname, sanitize_sha256 of path.rs).
THEOREM NamesAreSound == given \in Seq(Chars) => NamesSound
  BY SafeNames, StableNames, KeptNames DEF NamesSound

-----------------------------------------------------------------------------
(* The tree of a mount while the sources are gone through: every node      *)
(* comes after the directory it was made in, and the root lists only what  *)
(* the mount makes there; it and blob_count only grow.                     *)

\* A node has all its fields.
IsNode(x) == x = [kind |-> x.kind, name |-> x.name, parent |-> x.parent,
                  children |-> x.children, lazy |-> x.lazy, content |-> x.content]

\* A node comes after the directory it was made in; what a directory lists was made in it.
Shaped(t) ==
  /\ IsList(t) /\ Len(t) \in Nat /\ Len(t) >= 1 /\ t[Root].kind = "dir"
  /\ \A i \in 1 .. Len(t) :
       /\ IsNode(t[i]) /\ t[i].parent \in 0 .. i - 1 /\ t[i].children \in Seq(Nat)
       /\ \A k \in 1 .. Len(t[i].children) :
            t[i].children[k] \in i + 1 .. Len(t) /\ t[t[i].children[k]].parent = i

\* The root lists only what the mount makes there.
Rooted(t) == \A c \in Range(t[Root].children) : t[c].name \in Generated
Standing(t) == Shaped(t) /\ Rooted(t)

\* A list has a length, and so has what is left of it.
LEMMA ListLength ==
  ASSUME NEW s, IsList(s)
  PROVE  Len(s) \in Nat /\ DOMAIN s = 1 .. Len(s) /\ \A S : Len(Only(s, S)) \in Nat
<1>1. s \in Seq(Range(s))
  BY DEF IsList
<1>2. ASSUME NEW S PROVE Len(Only(s, S)) \in Nat
  BY <1>1, OnlyPicks
<1>3. QED  BY <1>1, <1>2

\* What each of a list is turned into is a list.
LEMMA MappedLength ==
  ASSUME NEW s, IsList(s), NEW t, t = [k \in DOMAIN s |-> t[k]]
  PROVE  IsList(t)
<1>1. DOMAIN s = 1 .. Len(s) /\ Len(s) \in Nat
  BY ListLength
<1>2. t \in Seq(Range(t))
  BY <1>1 DEF Range
<1>3. QED  BY <1>2 DEF IsList

\* One more element.
LEMMA OneMoreIs ==
  ASSUME NEW s, IsList(s), NEW x
  PROVE  /\ Len(s) \in Nat /\ IsList(Append(s, x)) /\ Len(Append(s, x)) = Len(s) + 1
         /\ Append(s, x)[Len(s) + 1] = x /\ \A i \in 1 .. Len(s) : Append(s, x)[i] = s[i]
<1> DEFINE S == Range(s) \union {x}
<1>1. s \in Seq(Range(s))
  BY DEF IsList
<1>2. s \in Seq(S) /\ x \in S
  BY <1>1
<1> HIDE DEF S
<1>3. /\ Append(s, x) \in Seq(S) /\ Len(Append(s, x)) = Len(s) + 1 /\ Len(s) \in Nat
      /\ Append(s, x)[Len(s) + 1] = x /\ \A i \in 1 .. Len(s) : Append(s, x)[i] = s[i]
  BY <1>2, OneName
<1>4. IsList(Append(s, x))
  BY <1>3 DEF IsList, Range
<1>5. QED  BY <1>3, <1>4

\* The same node but for what it lists.
Alike(x, y) == /\ IsNode(y) /\ y.kind = x.kind /\ y.name = x.name /\ y.parent = x.parent
              /\ y.content = x.content

\* The node is the last, and the directory it is made in lists it.
LEMMA AddIs ==
  ASSUME NEW t, IsList(t), \A i \in 1 .. Len(t) : IsNode(t[i]),
         NEW node, IsNode(node), node.parent \in 0 .. Len(t)
  PROVE  LET u == Add(t, node)
             y == u[Len(t) + 1]
         IN  /\ IsList(u) /\ Len(u) = Len(t) + 1 /\ Len(t) \in Nat
             /\ IsNode(y) /\ y.kind = node.kind /\ y.name = San[node.name]
             /\ y.parent = node.parent /\ y.children = node.children /\ y.content = node.content
             /\ \A i \in 1 .. Len(t) :
                  /\ Alike(t[i], u[i])
                  /\ u[i].children = IF i = node.parent /\ t[i].kind = "dir"
                                     THEN Append(t[i].children, Len(t) + 1) ELSE t[i].children
<1> DEFINE x == [node EXCEPT !.name = San[@]]
           n == Len(t) + 1
           m == Append(t, x)
           p == node.parent
           u == Add(t, node)
           w == [m EXCEPT ![p].children = Append(@, n)]
<1>1. /\ Len(t) \in Nat /\ IsList(m) /\ Len(m) = n /\ m[n] = x
      /\ \A i \in 1 .. Len(t) : m[i] = t[i]
  <2> HIDE DEF x
  <2> QED  BY OneMoreIs
<1>2. u = IF p \in DOMAIN t /\ t[p].kind = "dir" THEN w ELSE m
  BY <1>1 DEF Add, IsDir
<1>3. DOMAIN t = 1 .. Len(t) /\ DOMAIN m = 1 .. n
  BY <1>1 DEF IsList
<1> HIDE DEF x, m, p
<1>4. ASSUME p \in DOMAIN t
      PROVE  /\ w[p] = [t[p] EXCEPT !.children = Append(@, n)] /\ DOMAIN w = 1 .. n
             /\ \A i \in 1 .. n : i # p => w[i] = m[i]
  BY <1>1, <1>3, <1>4
<1>5. p \in DOMAIN t => IsList(w) /\ Len(w) = n
  <2> SUFFICES ASSUME p \in DOMAIN t PROVE IsList(w) /\ Len(w) = n
    OBVIOUS
  <2>1. w = [i \in 1 .. n |-> w[i]]
    BY <1>3
  <2> HIDE DEF w, n
  <2>2. n \in Nat
    BY <1>1 DEF n
  <2>3. DOMAIN w = 1 .. n
    BY <2>1
  <2>4. \A i \in 1 .. n : w[i] \in Range(w)
    BY <2>3 DEF Range
  <2> DEFINE S == Range(w)
  <2> HIDE DEF S
  <2>5. w \in [1 .. n -> S]
    BY <2>1, <2>4 DEF S
  <2>6. w \in Seq(S) /\ Len(w) = n
    BY <2>2, <2>5
  <2>7. QED  BY <2>6 DEF IsList, S
<1> HIDE DEF w, u, n
<1>6. IsList(u) /\ Len(u) = n
  BY <1>1, <1>2, <1>5
<1>7. p \in 0 .. Len(t) /\ n \in 1 .. n /\ p # n
  BY <1>1 DEF p, n
<1>8. u[n] = x
  BY <1>1, <1>2, <1>4, <1>7
<1>9. /\ IsNode(x) /\ x.kind = node.kind /\ x.name = San[node.name] /\ x.parent = node.parent
      /\ x.children = node.children /\ x.content = node.content
  BY DEF IsNode, x
<1>10. ASSUME NEW i \in 1 .. Len(t)
       PROVE  /\ Alike(t[i], u[i])
              /\ u[i].children = IF i = p /\ t[i].kind = "dir" THEN Append(t[i].children, n)
                                 ELSE t[i].children
  <2>1. IsNode(t[i]) /\ i \in 1 .. n /\ m[i] = t[i]
    BY <1>1 DEF n
  <2>2. CASE i = p /\ t[i].kind = "dir"
    <3>1. u[i] = [t[i] EXCEPT !.children = Append(@, n)]
      BY <1>2, <1>3, <1>4, <2>2
    <3> DEFINE a == t[i]
               b == u[i]
    <3>2. IsNode(a) /\ b = [a EXCEPT !.children = Append(@, n)]
      BY <2>1, <3>1
    <3> HIDE DEF a, b
    <3>3. Alike(a, b) /\ b.children = Append(a.children, n)
      BY <3>2 DEF IsNode, Alike
    <3>4. QED  BY <2>2, <3>3 DEF a, b
  <2>3. CASE ~(i = p /\ t[i].kind = "dir")
    <3>1. u[i] = t[i]
      BY <1>2, <1>3, <1>4, <2>1, <2>3
    <3>2. QED  BY <2>1, <2>3, <3>1 DEF Alike
  <2>4. QED  BY <2>2, <2>3
<1>11. QED
  <2>1. node.parent = p /\ Len(t) + 1 = n /\ Add(t, node) = u
    BY DEF p, n, u
  <2>2. QED  BY <1>1, <1>6, <1>8, <1>9, <1>10, <2>1

\* What has the shape is a list of nodes.
LEMMA ShapedIs ==
  ASSUME NEW t, Shaped(t)
  PROVE  /\ IsList(t) /\ Len(t) \in Nat /\ Len(t) >= 1 /\ t[Root].kind = "dir"
         /\ DOMAIN t = 1 .. Len(t) /\ Root \in 1 .. Len(t)
BY DEF Shaped, IsList, Root

\* It keeps the shape.
LEMMA AddShaped ==
  ASSUME NEW t, Shaped(t), NEW node, IsNode(node), node.children = <<>>,
         node.parent \in 0 .. Len(t)
  PROVE  /\ Shaped(Add(t, node)) /\ Len(Add(t, node)) = Len(t) + 1
         /\ Rooted(t) /\ (node.parent = Root => San[node.name] \in Generated)
              => Rooted(Add(t, node))
<1> DEFINE u == Add(t, node)
           n == Len(t) + 1
           p == node.parent
<1>1. /\ IsList(u) /\ Len(u) = n /\ Len(t) \in Nat
      /\ IsNode(u[n]) /\ u[n].parent = p /\ u[n].children = <<>> /\ u[n].name = San[node.name]
      /\ \A i \in 1 .. Len(t) :
           /\ Alike(t[i], u[i])
           /\ u[i].children = IF i = p /\ t[i].kind = "dir" THEN Append(t[i].children, n)
                              ELSE t[i].children
  <2>1. IsList(t) /\ \A i \in 1 .. Len(t) : IsNode(t[i])
    BY DEF Shaped
  <2>2. QED  BY <2>1, AddIs
<1> HIDE DEF u
<1>2. /\ IsNode(u[n]) /\ u[n].parent = p /\ u[n].children = <<>> /\ u[n].name = San[node.name]
  BY <1>1
<1>3. ASSUME NEW i \in 1 .. Len(t)
      PROVE  /\ IsNode(t[i]) /\ IsNode(u[i]) /\ u[i].parent = t[i].parent /\ u[i].kind = t[i].kind
             /\ u[i].name = t[i].name
             /\ u[i].children = IF i = p /\ t[i].kind = "dir" THEN Append(t[i].children, n)
                                ELSE t[i].children
  <2>1. IsNode(t[i])
    BY DEF Shaped
  <2>2. QED  BY <1>1, <2>1 DEF Alike
<1>4. ASSUME NEW i \in 1 .. n
      PROVE  /\ IsNode(u[i]) /\ u[i].parent \in 0 .. i - 1 /\ u[i].children \in Seq(Nat)
             /\ \A k \in 1 .. Len(u[i].children) :
                  u[i].children[k] \in i + 1 .. n /\ u[u[i].children[k]].parent = i
  <2>1. CASE i = n
    <3>0. p \in 0 .. n - 1
      BY <1>1
    <3>1. u[i].children = <<>> /\ u[i].parent \in 0 .. i - 1 /\ IsNode(u[i])
      <4> HIDE DEF n, p
      <4> QED  BY <1>2, <2>1, <3>0
    <3>2. QED  BY <3>1
  <2>2. CASE i \in 1 .. Len(t)
    <3> DEFINE old == t[i].children
               new == u[i].children
    <3>1. /\ t[i].parent \in 0 .. i - 1 /\ old \in Seq(Nat)
          /\ \A k \in 1 .. Len(old) : old[k] \in i + 1 .. Len(t) /\ t[old[k]].parent = i
      BY <2>2 DEF Shaped
    <3>2. \A k \in 1 .. Len(old) : old[k] \in i + 1 .. n /\ u[old[k]].parent = i
      <4> SUFFICES ASSUME NEW k \in 1 .. Len(old)
                   PROVE  old[k] \in i + 1 .. n /\ u[old[k]].parent = i
        OBVIOUS
      <4>1. old[k] \in i + 1 .. Len(t) /\ t[old[k]].parent = i
        BY <3>1
      <4>2. old[k] \in 1 .. Len(t) /\ old[k] \in i + 1 .. n
        BY <1>1, <2>2, <4>1
      <4>3. QED  BY <1>3, <4>1, <4>2
    <3>3. CASE i = p /\ t[i].kind = "dir"
      <4>1. new = Append(old, n)
        BY <1>3, <2>2, <3>3
      <4> HIDE DEF old, new
      <4>2. /\ new \in Seq(Nat) /\ Len(new) = Len(old) + 1 /\ new[Len(old) + 1] = n
            /\ \A k \in 1 .. Len(old) : new[k] = old[k]
        BY <1>1, <3>1, <4>1
      <4>3. n \in i + 1 .. n /\ u[n].parent = i
        BY <1>1, <1>2, <2>2, <3>3
      <4>4. \A k \in 1 .. Len(new) : k = Len(old) + 1 \/ k \in 1 .. Len(old)
        BY <3>1, <4>2
      <4>5. \A k \in 1 .. Len(new) : new[k] \in i + 1 .. n /\ u[new[k]].parent = i
        BY <3>2, <4>2, <4>3, <4>4
      <4>6. QED  BY <1>3, <2>2, <3>1, <4>2, <4>5 DEF new
    <3>4. CASE ~(i = p /\ t[i].kind = "dir")
      BY <1>3, <2>2, <3>1, <3>2, <3>4
    <3>5. QED  BY <3>3, <3>4
  <2>3. QED  BY <1>1, <2>1, <2>2
<1>5. Shaped(u)
  <2>1. u[Root].kind = "dir" /\ Len(u) \in Nat /\ Len(u) >= 1
    BY <1>1, <1>3 DEF Shaped, Root
  <2>2. QED  BY <1>1, <1>4, <2>1 DEF Shaped
<1>6. ASSUME Rooted(t), p = Root => San[node.name] \in Generated
      PROVE  Rooted(u)
  <2> SUFFICES ASSUME NEW c \in Range(u[Root].children) PROVE u[c].name \in Generated
    BY DEF Rooted
  <2> DEFINE old == t[Root].children
  <2>1. old \in Seq(Nat) /\ Root \in 1 .. Len(t) /\ u[Root].children \in Seq(Nat)
        /\ \A k \in 1 .. Len(old) : old[k] \in 1 .. Len(t)
    <3>1. Root \in 1 .. Len(t) /\ Root \in 1 .. n
      BY <1>1, ShapedIs
    <3>2. old \in Seq(Nat) /\ \A k \in 1 .. Len(old) : old[k] \in Root + 1 .. Len(t)
      BY <3>1 DEF Shaped
    <3>3. \A k \in 1 .. Len(old) : old[k] \in 1 .. Len(t)
      BY <3>1, <3>2
    <3>4. u[Root].children \in Seq(Nat)
      BY <1>4, <3>1
    <3>5. QED  BY <3>1, <3>2, <3>3, <3>4
  <2>2. Range(Append(old, n)) = Range(old) \union {n}
    <3>1. n \in Nat
      BY <1>1
    <3> HIDE DEF n, old
    <3>2. old \in Seq(Nat)
      BY <2>1
    <3>3. QED  BY <3>1, <3>2, RangeAppend
  <2>3. c \in Range(old) \/ (c = n /\ p = Root)
    BY <1>3, <2>1, <2>2
  <2>4. CASE c \in Range(old)
    <3>1. c \in 1 .. Len(t) /\ t[c].name \in Generated
      BY <1>6, <2>1, <2>4 DEF Rooted, Range
    <3>2. QED  BY <1>3, <3>1
  <2>5. QED  BY <1>2, <1>6, <2>3, <2>4
<1>7. QED  BY <1>1, <1>5, <1>6 DEF u

\* A tree that stands, and one with more on it.
Taller(t, u) == Standing(u) /\ Len(u) \in Nat /\ Len(t) \in Nat /\ Len(t) <= Len(u)

\* What the builders put below the root's own directories.
LEMMA AddsStand ==
  ASSUME NEW t, Standing(t), NEW p, p \in 0 .. Len(t), p # Root, NEW n, NEW c
  PROVE  \A u \in {AddDirectory(t, p, n), AddStaticFile(t, p, n), AddRemoteFile(t, p, n, c),
                   AddLazyDir(t, p, n)} :
           Taller(t, u) /\ Len(u) = Len(t) + 1
<1> DEFINE Firm(x) == IsNode(x) /\ x.children = <<>> /\ x.parent = p
<1>1. Firm(Dir(p, n)) /\ Firm(File(p, n, c)) /\ Firm(File(p, n, Static))
      /\ Firm([Dir(p, n) EXCEPT !.lazy = TRUE])
  <2>1. Firm(Dir(p, n)) /\ Firm(File(p, n, c)) /\ Firm(File(p, n, Static))
    BY DEF Dir, File, IsNode
  <2>2. ASSUME NEW x, Firm(x) PROVE Firm([x EXCEPT !.lazy = TRUE])
    <3>1. PICK y : y = [x EXCEPT !.lazy = TRUE]
      OBVIOUS
    <3>2. IsNode(y) /\ y.children = x.children /\ y.parent = x.parent
      BY <2>2, <3>1 DEF IsNode
    <3>3. QED  BY <2>2, <3>1, <3>2
  <2>3. Firm([Dir(p, n) EXCEPT !.lazy = TRUE])
    <3> HIDE DEF Firm
    <3> QED  BY <2>1, <2>2
  <2>4. QED  BY <2>1, <2>3
<1>2. ASSUME NEW x, Firm(x) PROVE Taller(t, Add(t, x)) /\ Len(Add(t, x)) = Len(t) + 1
  <2>1. Shaped(t) /\ Rooted(t) /\ Len(t) \in Nat
    BY ShapedIs DEF Standing
  <2>2. IsNode(x) /\ x.children = <<>> /\ x.parent \in 0 .. Len(t) /\ x.parent # Root
    BY <1>2
  <2>3. Shaped(Add(t, x)) /\ Len(Add(t, x)) = Len(t) + 1 /\ Rooted(Add(t, x))
    BY <2>1, <2>2, AddShaped
  <2>4. QED  BY <2>1, <2>3 DEF Standing, Taller
<1> HIDE DEF Firm
<1>3. QED
  BY <1>1, <1>2 DEF AddDirectory, AddStaticFile, AddRemoteFile, AddLazyDir

\* What main.rs puts into the root.
LEMMA RootAdds ==
  ASSUME NEW t, Standing(t), NEW n \in Generated
  PROVE  \A u \in {AddDirectory(t, Root, n), AddStaticFile(t, Root, n)} :
           Taller(t, u) /\ Len(u) = Len(t) + 1
<1> DEFINE Firm(x) == IsNode(x) /\ x.children = <<>> /\ x.parent = Root /\ x.name = n
<1>1. Firm(Dir(Root, n)) /\ Firm(File(Root, n, Static))
  BY DEF Dir, File, IsNode
<1>2. ASSUME NEW x, Firm(x) PROVE Taller(t, Add(t, x)) /\ Len(Add(t, x)) = Len(t) + 1
  <2>1. Shaped(t) /\ Rooted(t) /\ Len(t) \in Nat /\ Root \in 0 .. Len(t)
    BY ShapedIs DEF Standing, Root
  <2>2. IsNode(x) /\ x.children = <<>> /\ x.parent \in 0 .. Len(t) /\ San[x.name] \in Generated
    BY <1>2, <2>1, WordAssumption
  <2>3. Shaped(Add(t, x)) /\ Len(Add(t, x)) = Len(t) + 1 /\ Rooted(Add(t, x))
    BY <2>1, <2>2, AddShaped
  <2>4. QED  BY <2>1, <2>3 DEF Standing, Taller
<1> HIDE DEF Firm
<1>3. QED  BY <1>1, <1>2 DEF AddDirectory, AddStaticFile

\* A tree is as tall as itself, and taller than what the one below it was.
LEMMA TallerYet ==
  /\ \A t : Standing(t) => Taller(t, t) /\ Len(t) \in Nat /\ Len(t) >= 1
  /\ \A t, u, v : Taller(t, u) /\ Taller(u, v) => Taller(t, v)
<1>1. \A t : Standing(t) => Taller(t, t) /\ Len(t) \in Nat /\ Len(t) >= 1
  BY ShapedIs DEF Taller, Standing
<1>2. \A t, u, v : Taller(t, u) /\ Taller(u, v) => Taller(t, v)
  BY DEF Taller
<1>3. QED  BY <1>1, <1>2

\* The empty tree.
LEMMA NewStands == Standing(NewTree) /\ Len(NewTree) = 1
<1> DEFINE x == Dir(0, "/")
<1>1. NewTree = <<x>>
  BY DEF NewTree
<1>2. IsNode(x) /\ x.parent = 0 /\ x.children = <<>> /\ x.kind = "dir"
  BY DEF Dir, IsNode
<1> HIDE DEF x
<1>3. /\ Len(NewTree) = 1 /\ NewTree[1] = x /\ IsList(NewTree)
  <2>1. <<x>>[1] = x /\ Len(<<x>>) = 1 /\ <<x>> \in Seq({x})
    OBVIOUS
  <2>2. Range(<<x>>) = {x}
    <3>1. DOMAIN <<x>> = {1}
      OBVIOUS
    <3>2. QED  BY <2>1, <3>1 DEF Range
  <2>3. IsList(<<x>>)
    BY <2>1, <2>2 DEF IsList
  <2>4. QED  BY <1>1, <2>1, <2>3
<1>4. Shaped(NewTree)
  <2>1. <<>> \in Seq(Nat) /\ Len(<<>>) = 0
    OBVIOUS
  <2> DEFINE t == NewTree
  <2>2. /\ IsList(t) /\ Len(t) = 1 /\ IsNode(t[1]) /\ t[1].parent = 0 /\ t[1].children = <<>>
        /\ t[1].kind = "dir"
    BY <1>2, <1>3
  <2> HIDE DEF t
  <2>3. ASSUME NEW i \in 1 .. Len(t)
        PROVE  /\ IsNode(t[i]) /\ t[i].parent \in 0 .. i - 1 /\ t[i].children \in Seq(Nat)
               /\ \A k \in 1 .. Len(t[i].children) :
                    t[i].children[k] \in i + 1 .. Len(t) /\ t[t[i].children[k]].parent = i
    <3>1. i = 1
      BY <2>2
    <3>2. /\ IsNode(t[i]) /\ t[i].children = <<>> /\ t[i].parent = 0 /\ 0 \in 0 .. i - 1
          /\ Len(t[i].children) = 0 /\ t[i].children \in Seq(Nat)
      <4>1. IsNode(t[1]) /\ t[1].children = <<>> /\ t[1].parent = 0 /\ 0 \in 0 .. 1 - 1
        BY <2>2
      <4>2. Len(t[1].children) = 0 /\ t[1].children \in Seq(Nat)
        BY <2>1, <4>1
      <4>3. QED  BY <3>1, <4>1, <4>2, Zenon
    <3>3. 1 .. Len(t[i].children) = {}
      BY <3>2
    <3>4. QED  BY <3>2, <3>3
  <2>4. Shaped(t)
    BY <2>2, <2>3 DEF Shaped, Root
  <2>5. QED  BY <2>4 DEF t
<1>5. Rooted(NewTree)
  BY <1>2, <1>3 DEF Rooted, Root, Range
<1>6. QED  BY <1>3, <1>4, <1>5 DEF Standing

\* What is found below a directory comes after it.
LEMMA LookupIs ==
  ASSUME NEW t, Shaped(t), NEW p \in 0 .. Len(t), NEW n
  PROVE  LET i == Lookup(t, p, n) IN
         \/ i = 0
         \/ /\ i \in p + 1 .. Len(t) /\ p # 0 /\ t[p].kind = "dir"
            /\ i \in Range(t[p].children) /\ t[i].name = n /\ t[i].parent = p
<1> DEFINE list == t[p].children
           named == {k \in DOMAIN list : t[list[k]].name = n}
<1>1. Lookup(t, p, n) = IF IsDir(t, p) /\ named # {} THEN list[Min(named)] ELSE 0
  BY DEF Lookup
<1>2. CASE ~(IsDir(t, p) /\ named # {})
  BY <1>1, <1>2
<1>3. CASE IsDir(t, p) /\ named # {}
  <2>1. p \in 1 .. Len(t) /\ t[p].kind = "dir" /\ Len(t) \in Nat
    BY <1>3 DEF IsDir, Shaped, IsList
  <2>2. list \in Seq(Nat) /\ \A k \in 1 .. Len(list) : list[k] \in p + 1 .. Len(t) /\ t[list[k]].parent = p
    BY <2>1 DEF Shaped
  <2>3. named \in SUBSET Nat
    BY <2>2
  <2> HIDE DEF list
  <2>4. Min(named) \in named
    BY <1>3, <2>3, MinIs
  <2> DEFINE k == Min(named)
  <2>5. k \in 1 .. Len(list) /\ t[list[k]].name = n
    <3> HIDE DEF k
    <3> QED  BY <2>2, <2>4 DEF k
  <2> HIDE DEF k
  <2>6. list[k] \in Range(list)
    BY <2>2, <2>5 DEF Range
  <2>7. Lookup(t, p, n) = list[k]
    BY <1>1, <1>3 DEF k
  <2>8. QED  BY <2>1, <2>2, <2>5, <2>6, <2>7 DEF list
<1>4. QED  BY <1>2, <1>3

\* The directory of that name, found or made.
LEMMA GotDir ==
  ASSUME NEW t, Standing(t), NEW p \in 2 .. Len(t), NEW n
  PROVE  LET r == GetOrCreateDir(t, p, n) IN Taller(t, r.tree) /\ r.ino \in 2 .. Len(r.tree)
<1>1. Shaped(t) /\ Len(t) \in Nat /\ Len(t) >= 1 /\ p \in 0 .. Len(t) /\ p # Root
  BY ShapedIs DEF Standing, Root
<1>2. CASE Lookup(t, p, n) # 0
  <2>1. Lookup(t, p, n) \in 2 .. Len(t)
    BY <1>1, <1>2, LookupIs
  <2>2. GetOrCreateDir(t, p, n) = [tree |-> t, ino |-> Lookup(t, p, n)]
    BY <1>2 DEF GetOrCreateDir
  <2>3. QED  BY <2>1, <2>2, TallerYet
<1>3. CASE Lookup(t, p, n) = 0
  <2>1. GetOrCreateDir(t, p, n) = [tree |-> AddDirectory(t, p, n), ino |-> Len(t) + 1]
    BY <1>3 DEF GetOrCreateDir
  <2>2. Taller(t, AddDirectory(t, p, n)) /\ Len(AddDirectory(t, p, n)) = Len(t) + 1
    BY <1>1, AddsStand
  <2>3. QED  BY <1>1, <2>1, <2>2
<1>4. QED  BY <1>2, <1>3

\* The directories on the way, one after the other.
Way(t, p, path, at) ==
  /\ at[0] = [tree |-> t, ino |-> p]
  /\ \A k \in 1 .. Len(path) : at[k] = GetOrCreateDir(at[k - 1].tree, at[k - 1].ino, path[k])
  /\ GetOrCreateFrom(t, p, path) = at[Len(path)]

\* There are such steps.
LEMMA WayIs ==
  ASSUME NEW t, NEW p, NEW path, Len(path) \in Nat
  PROVE  \E at : Way(t, p, path, at)
<1> DEFINE n == Len(path)
           base == [tree |-> t, ino |-> p]
           Step(v, k) == GetOrCreateDir(v.tree, v.ino, path[k])
           Eq(f) == f = [k \in 0 .. n |-> IF k = 0 THEN base ELSE Step(f[k - 1], k)]
           add == CHOOSE f : Eq(f)
<1>1. GetOrCreateFrom(t, p, path) = add[n]
  BY DEF GetOrCreateFrom
<1>2. n \in Nat
  OBVIOUS
<1>3. n = Len(path) /\ base = [tree |-> t, ino |-> p]
      /\ \A v, k : Step(v, k) = GetOrCreateDir(v.tree, v.ino, path[k])
  OBVIOUS
<1> HIDE DEF n, base, Step
<1>5. \E g : Eq(g)
  <2> DEFINE Upto(m) == \E g : g = [k \in 0 .. m |-> IF k = 0 THEN base ELSE Step(g[k - 1], k)]
             R == {m \in 0 .. n : Upto(m)}
  <2>1. 0 \in R
    <3> DEFINE g == [k \in 0 .. 0 |-> base]
    <3>1. g = [k \in 0 .. 0 |-> IF k = 0 THEN base ELSE Step(g[k - 1], k)]
      OBVIOUS
    <3>2. Upto(0)
      <4> HIDE DEF g
      <4> QED  BY <3>1
    <3>3. QED
      <4> HIDE DEF Upto
      <4> QED  BY <1>2, <3>2
  <2>2. ASSUME NEW m \in 1 .. n, m - 1 \in R PROVE m \in R
    <3>1. PICK g : g = [k \in 0 .. m - 1 |-> IF k = 0 THEN base ELSE Step(g[k - 1], k)]
      BY <2>2
    <3> DEFINE h == [k \in 0 .. m |-> IF k = m THEN Step(g[m - 1], m) ELSE g[k]]
    <3>2. \A k \in 0 .. m - 1 : h[k] = g[k] /\ g[k] = IF k = 0 THEN base ELSE Step(g[k - 1], k)
      <4>1. m \in Nat
        BY <1>2
      <4>2. ASSUME NEW k \in 0 .. m - 1 PROVE h[k] = g[k]
        BY <4>1
      <4>3. ASSUME NEW k \in 0 .. m - 1
            PROVE  g[k] = IF k = 0 THEN base ELSE Step(g[k - 1], k)
        <5> HIDE DEF h
        <5> QED  BY <3>1
      <4>4. QED
        <5> HIDE DEF h
        <5> QED  BY <4>2, <4>3
    <3>3. h[m] = Step(h[m - 1], m)
      BY <1>2
    <3>4. ASSUME NEW k \in 0 .. m PROVE h[k] = IF k = 0 THEN base ELSE Step(h[k - 1], k)
      <4>1. CASE k = m
        BY <1>2, <3>3, <4>1
      <4>2. CASE k \in 0 .. m - 1 /\ k # 0
        <5>1. k - 1 \in 0 .. m - 1
          BY <1>2, <4>2
        <5> HIDE DEF h
        <5>2. QED  BY <3>2, <4>2, <5>1
      <4>3. CASE k \in 0 .. m - 1 /\ k = 0
        BY <3>2, <4>3
      <4>4. QED  BY <1>2, <4>1, <4>2, <4>3
    <3>5. h = [k \in 0 .. m |-> h[k]]
      OBVIOUS
    <3>6. Upto(m)
      <4> HIDE DEF h
      <4>1. h = [k \in 0 .. m |-> IF k = 0 THEN base ELSE Step(h[k - 1], k)]
        BY <3>4, <3>5
      <4>2. QED  BY <4>1
    <3>7. QED
      <4> HIDE DEF Upto
      <4> QED  BY <1>2, <3>6
  <2>3. 0 .. n \subseteq R
    <3> HIDE DEF R
    <3> QED  BY <1>2, <2>1, <2>2, IntervalInduction
  <2>4. Upto(n)
    <3> HIDE DEF Upto
    <3> QED  BY <1>2, <2>3
  <2>5. QED  BY <2>4
<1>6. Eq(add)
  <2> HIDE DEF Eq
  <2> QED  BY <1>5
<1>7. add[0] = base /\ \A k \in 1 .. n : add[k] = Step(add[k - 1], k)
  <2> HIDE DEF add
  <2> QED  BY <1>2, <1>6
<1> HIDE DEF add
<1>8. QED  BY <1>1, <1>3, <1>7 DEF Way

\* The path below a directory, found or made.
LEMMA GotFrom ==
  ASSUME NEW t, Standing(t), NEW p \in 2 .. Len(t), NEW path, Len(path) \in Nat
  PROVE  LET r == GetOrCreateFrom(t, p, path) IN Taller(t, r.tree) /\ r.ino \in 2 .. Len(r.tree)
<1>1. PICK at : Way(t, p, path, at)
  BY WayIs
<1> DEFINE n == Len(path)
           Ok(r) == Taller(t, r.tree) /\ r.ino \in 2 .. Len(r.tree)
           R == {k \in 0 .. n : Ok(at[k])}
<1>2. 0 \in R
  <2>1. at[0].tree = t /\ at[0].ino = p
    BY <1>1 DEF Way
  <2>2. QED  BY <2>1, TallerYet
<1>3. ASSUME NEW k \in 1 .. n, k - 1 \in R PROVE k \in R
  <2> DEFINE v == at[k - 1]
             r == GetOrCreateDir(v.tree, v.ino, path[k])
  <2>1. at[k] = r
    BY <1>1 DEF Way
  <2>2. Taller(t, v.tree) /\ Standing(v.tree) /\ v.ino \in 2 .. Len(v.tree)
    BY <1>3 DEF Taller
  <2>3. Taller(v.tree, r.tree) /\ r.ino \in 2 .. Len(r.tree)
    <3> HIDE DEF v
    <3> QED  BY <2>2, GotDir
  <2> HIDE DEF v, r
  <2>4. Taller(t, r.tree)
    BY <2>2, <2>3, TallerYet
  <2>5. QED  BY <2>1, <2>3, <2>4
<1>4. 0 .. n \subseteq R
  <2> HIDE DEF R
  <2> QED  BY <1>2, <1>3, IntervalInduction
<1>5. Ok(at[n]) /\ GetOrCreateFrom(t, p, path) = at[n]
  BY <1>1, <1>4 DEF Way
<1>6. QED  BY <1>5

\* The views of one blob.
LEMMA DescriptorStands ==
  ASSUME NEW t, Standing(t), NEW dirs, NEW b, IsList(DayOf[b]),
         {dirs.sha, dirs.type, dirs.date} \subseteq 2 .. Len(t)
  PROVE  Taller(t, AddDescriptor(t, dirs, b))
<1> DEFINE one == IF Seen(t, dirs.sha, b) THEN t ELSE AddRemoteFile(t, dirs.sha, NameOf[b], b)
           ty == GetOrCreateDir(one, dirs.type, TypeOf[b])
           two == AddRemoteFile(ty.tree, ty.ino, NameOf[b], b)
           day == GetOrCreateFrom(two, dirs.date, DayOf[b])
           last == AddRemoteFile(day.tree, day.ino, NameOf[b], b)
<1>0. /\ AddDescriptor(t, dirs, b) = last /\ Len(t) \in Nat /\ Len(DayOf[b]) \in Nat
      /\ \A i : i \in 2 .. Len(t) => i \in 0 .. Len(t) /\ i # Root
  BY TallerYet DEF AddDescriptor, IsList, Root
<1>1. Taller(t, one)
  <2>1. Taller(t, t) /\ Taller(t, AddRemoteFile(t, dirs.sha, NameOf[b], b))
    BY <1>0, AddsStand, TallerYet
  <2>2. QED  BY <2>1
<1> HIDE DEF one
<1>2. Taller(one, ty.tree) /\ ty.ino \in 2 .. Len(ty.tree)
  <2>1. dirs.type \in 2 .. Len(one) /\ Standing(one)
    BY <1>1 DEF Taller
  <2>2. QED  BY <2>1, GotDir
<1> HIDE DEF ty
<1>3. Taller(ty.tree, two)
  <2>1. Standing(ty.tree) /\ ty.ino \in 0 .. Len(ty.tree) /\ ty.ino # Root
    BY <1>2 DEF Taller, Root
  <2>2. QED  BY <2>1, AddsStand
<1> HIDE DEF two
<1>4. Taller(t, two)
  BY <1>1, <1>2, <1>3, TallerYet
<1>5. Taller(two, day.tree) /\ day.ino \in 2 .. Len(day.tree)
  <2>1. dirs.date \in 2 .. Len(two) /\ Standing(two)
    BY <1>4 DEF Taller
  <2>2. QED  BY <1>0, <2>1, GotFrom
<1> HIDE DEF day
<1>6. Taller(day.tree, last)
  <2>1. Standing(day.tree) /\ day.ino \in 0 .. Len(day.tree) /\ day.ino # Root
    BY <1>5 DEF Taller, Root
  <2>2. QED  BY <2>1, AddsStand
<1> HIDE DEF last
<1>7. QED  BY <1>0, <1>4, <1>5, <1>6, TallerYet

\* build_from_descriptors.
LEMMA ViewsStand ==
  ASSUME NEW t, Standing(t), NEW p \in 0 .. Len(t), p # Root,
         NEW blobs, IsList(blobs), \A b \in Range(blobs) : IsList(DayOf[b])
  PROVE  Taller(t, BuildFromDescriptors(t, p, blobs))
<1> DEFINE one == AddDirectory(t, p, "by-sha256")
           two == AddDirectory(one, p, "by-type")
           dirs == [sha |-> Len(t) + 1, type |-> Len(t) + 2, date |-> Len(t) + 3]
           n == Len(blobs)
           base == AddDirectory(two, p, "by-date")
           Step(v, k) == AddDescriptor(v, dirs, blobs[k])
           Eq(f) == f = [k \in 0 .. n |-> IF k = 0 THEN base ELSE Step(f[k - 1], k)]
           add == CHOOSE f : Eq(f)
<1>1. BuildFromDescriptors(t, p, blobs) = add[n]
  BY DEF BuildFromDescriptors
<1>2. n \in Nat /\ DOMAIN blobs = 1 .. n
  BY ListLength
<1>3. Taller(t, base) /\ Len(base) = Len(t) + 3 /\ Len(t) >= 1 /\ Len(t) \in Nat
  <2>0. Len(t) \in Nat /\ Len(t) >= 1
    BY TallerYet
  <2>1. Taller(t, one) /\ Len(one) = Len(t) + 1
    BY AddsStand
  <2> HIDE DEF one
  <2>2. p \in 0 .. Len(one) /\ Standing(one)
    BY <2>0, <2>1 DEF Taller
  <2>3. Taller(one, two) /\ Len(two) = Len(one) + 1
    BY <2>2, AddsStand
  <2> HIDE DEF two
  <2>4. p \in 0 .. Len(two) /\ Standing(two)
    BY <2>0, <2>1, <2>3 DEF Taller
  <2>5. Taller(two, base) /\ Len(base) = Len(two) + 1
    BY <2>4, AddsStand
  <2> HIDE DEF base
  <2>6. Taller(t, base)
    BY <2>1, <2>3, <2>5, TallerYet
  <2>7. QED  BY <2>0, <2>1, <2>3, <2>5, <2>6
<1>4. ASSUME NEW k \in 1 .. n, NEW v, Taller(base, v)
      PROVE  Taller(v, Step(v, k))
  <2>1. Standing(v) /\ {dirs.sha, dirs.type, dirs.date} \subseteq 2 .. Len(v)
    <3> HIDE DEF base
    <3> QED  BY <1>3, <1>4 DEF Taller
  <2>2. IsList(DayOf[blobs[k]])
    BY <1>2 DEF Range
  <2> HIDE DEF dirs
  <2>3. QED  BY <2>1, <2>2, DescriptorStands
<1> HIDE DEF n, base, Step
<1>5. \E g : Eq(g)
  <2> DEFINE Upto(m) == \E g : g = [k \in 0 .. m |-> IF k = 0 THEN base ELSE Step(g[k - 1], k)]
             R == {m \in 0 .. n : Upto(m)}
  <2>1. 0 \in R
    <3> DEFINE g == [k \in 0 .. 0 |-> base]
    <3>1. g = [k \in 0 .. 0 |-> IF k = 0 THEN base ELSE Step(g[k - 1], k)]
      OBVIOUS
    <3>2. Upto(0)
      <4> HIDE DEF g
      <4> QED  BY <3>1
    <3>3. QED
      <4> HIDE DEF Upto
      <4> QED  BY <1>2, <3>2
  <2>2. ASSUME NEW m \in 1 .. n, m - 1 \in R PROVE m \in R
    <3>1. PICK g : g = [k \in 0 .. m - 1 |-> IF k = 0 THEN base ELSE Step(g[k - 1], k)]
      BY <2>2
    <3> DEFINE h == [k \in 0 .. m |-> IF k = m THEN Step(g[m - 1], m) ELSE g[k]]
    <3>2. \A k \in 0 .. m - 1 : h[k] = g[k] /\ g[k] = IF k = 0 THEN base ELSE Step(g[k - 1], k)
      <4>1. m \in Nat
        BY <1>2
      <4>2. ASSUME NEW k \in 0 .. m - 1 PROVE h[k] = g[k]
        BY <4>1
      <4>3. ASSUME NEW k \in 0 .. m - 1
            PROVE  g[k] = IF k = 0 THEN base ELSE Step(g[k - 1], k)
        <5> HIDE DEF h
        <5> QED  BY <3>1
      <4>4. QED
        <5> HIDE DEF h
        <5> QED  BY <4>2, <4>3
    <3>3. h[m] = Step(h[m - 1], m)
      BY <1>2
    <3>4. ASSUME NEW k \in 0 .. m PROVE h[k] = IF k = 0 THEN base ELSE Step(h[k - 1], k)
      <4>1. CASE k = m
        BY <1>2, <3>3, <4>1
      <4>2. CASE k \in 0 .. m - 1 /\ k # 0
        <5>1. k - 1 \in 0 .. m - 1
          BY <1>2, <4>2
        <5> HIDE DEF h
        <5>2. QED  BY <3>2, <4>2, <5>1
      <4>3. CASE k \in 0 .. m - 1 /\ k = 0
        BY <3>2, <4>3
      <4>4. QED  BY <1>2, <4>1, <4>2, <4>3
    <3>5. h = [k \in 0 .. m |-> h[k]]
      OBVIOUS
    <3>6. Upto(m)
      <4> HIDE DEF h
      <4>1. h = [k \in 0 .. m |-> IF k = 0 THEN base ELSE Step(h[k - 1], k)]
        BY <3>4, <3>5
      <4>2. QED  BY <4>1
    <3>7. QED
      <4> HIDE DEF Upto
      <4> QED  BY <1>2, <3>6
  <2>3. 0 .. n \subseteq R
    <3> HIDE DEF R
    <3> QED  BY <1>2, <2>1, <2>2, IntervalInduction
  <2>4. Upto(n)
    <3> HIDE DEF Upto
    <3> QED  BY <1>2, <2>3
  <2>5. QED  BY <2>4
<1>6. Eq(add)
  <2> HIDE DEF Eq
  <2> QED  BY <1>5
<1>7. add[0] = base /\ \A k \in 1 .. n : add[k] = Step(add[k - 1], k)
  <2> HIDE DEF add
  <2> QED  BY <1>2, <1>6
<1> HIDE DEF add
<1>8. Taller(base, add[n])
  <2> DEFINE R == {k \in 0 .. n : Taller(base, add[k])}
  <2>1. 0 \in R
    BY <1>2, <1>3, <1>7, TallerYet DEF Taller
  <2>2. ASSUME NEW k \in 1 .. n, k - 1 \in R PROVE k \in R
    BY <1>4, <1>7, <2>2, TallerYet
  <2>3. 0 .. n \subseteq R
    <3> HIDE DEF R
    <3> QED  BY <1>2, <2>1, <2>2, IntervalInduction
  <2>4. QED  BY <1>2, <2>3
<1>9. QED  BY <1>1, <1>3, <1>8, TallerYet

\* Only by-sha256.
LEMMA ShasStand ==
  ASSUME NEW t, Standing(t), NEW p \in 0 .. Len(t), p # Root, NEW blobs, IsList(blobs)
  PROVE  Taller(t, BuildBySha256Only(t, p, blobs))
<1> DEFINE dir == Len(t) + 1
           n == Len(blobs)
           base == AddDirectory(t, p, "by-sha256")
           Step(v, k) == IF Seen(v, dir, blobs[k]) THEN v
                         ELSE AddRemoteFile(v, dir, NameOf[blobs[k]], blobs[k])
           Eq(f) == f = [k \in 0 .. n |-> IF k = 0 THEN base ELSE Step(f[k - 1], k)]
           add == CHOOSE f : Eq(f)
<1>1. BuildBySha256Only(t, p, blobs) = add[n]
  BY DEF BuildBySha256Only
<1>2. n \in Nat
  BY ListLength
<1>3. Taller(t, base) /\ Len(base) = dir /\ Len(t) >= 1 /\ Len(t) \in Nat
  BY AddsStand, TallerYet
<1>4. ASSUME NEW k \in 1 .. n, NEW v, Taller(base, v)
      PROVE  Taller(v, Step(v, k))
  <2>1. Standing(v) /\ dir \in 0 .. Len(v) /\ dir # Root
    <3> HIDE DEF base
    <3> QED  BY <1>3, <1>4 DEF Taller, Root
  <2> HIDE DEF dir
  <2>2. Taller(v, v) /\ Taller(v, AddRemoteFile(v, dir, NameOf[blobs[k]], blobs[k]))
    BY <2>1, AddsStand, TallerYet
  <2>3. QED  BY <2>2
<1> HIDE DEF n, base, Step
<1>5. \E g : Eq(g)
  <2> DEFINE Upto(m) == \E g : g = [k \in 0 .. m |-> IF k = 0 THEN base ELSE Step(g[k - 1], k)]
             R == {m \in 0 .. n : Upto(m)}
  <2>1. 0 \in R
    <3> DEFINE g == [k \in 0 .. 0 |-> base]
    <3>1. g = [k \in 0 .. 0 |-> IF k = 0 THEN base ELSE Step(g[k - 1], k)]
      OBVIOUS
    <3>2. Upto(0)
      <4> HIDE DEF g
      <4> QED  BY <3>1
    <3>3. QED
      <4> HIDE DEF Upto
      <4> QED  BY <1>2, <3>2
  <2>2. ASSUME NEW m \in 1 .. n, m - 1 \in R PROVE m \in R
    <3>1. PICK g : g = [k \in 0 .. m - 1 |-> IF k = 0 THEN base ELSE Step(g[k - 1], k)]
      BY <2>2
    <3> DEFINE h == [k \in 0 .. m |-> IF k = m THEN Step(g[m - 1], m) ELSE g[k]]
    <3>2. \A k \in 0 .. m - 1 : h[k] = g[k] /\ g[k] = IF k = 0 THEN base ELSE Step(g[k - 1], k)
      <4>1. m \in Nat
        BY <1>2
      <4>2. ASSUME NEW k \in 0 .. m - 1 PROVE h[k] = g[k]
        BY <4>1
      <4>3. ASSUME NEW k \in 0 .. m - 1
            PROVE  g[k] = IF k = 0 THEN base ELSE Step(g[k - 1], k)
        <5> HIDE DEF h
        <5> QED  BY <3>1
      <4>4. QED
        <5> HIDE DEF h
        <5> QED  BY <4>2, <4>3
    <3>3. h[m] = Step(h[m - 1], m)
      BY <1>2
    <3>4. ASSUME NEW k \in 0 .. m PROVE h[k] = IF k = 0 THEN base ELSE Step(h[k - 1], k)
      <4>1. CASE k = m
        BY <1>2, <3>3, <4>1
      <4>2. CASE k \in 0 .. m - 1 /\ k # 0
        <5>1. k - 1 \in 0 .. m - 1
          BY <1>2, <4>2
        <5> HIDE DEF h
        <5>2. QED  BY <3>2, <4>2, <5>1
      <4>3. CASE k \in 0 .. m - 1 /\ k = 0
        BY <3>2, <4>3
      <4>4. QED  BY <1>2, <4>1, <4>2, <4>3
    <3>5. h = [k \in 0 .. m |-> h[k]]
      OBVIOUS
    <3>6. Upto(m)
      <4> HIDE DEF h
      <4>1. h = [k \in 0 .. m |-> IF k = 0 THEN base ELSE Step(h[k - 1], k)]
        BY <3>4, <3>5
      <4>2. QED  BY <4>1
    <3>7. QED
      <4> HIDE DEF Upto
      <4> QED  BY <1>2, <3>6
  <2>3. 0 .. n \subseteq R
    <3> HIDE DEF R
    <3> QED  BY <1>2, <2>1, <2>2, IntervalInduction
  <2>4. Upto(n)
    <3> HIDE DEF Upto
    <3> QED  BY <1>2, <2>3
  <2>5. QED  BY <2>4
<1>6. Eq(add)
  <2> HIDE DEF Eq
  <2> QED  BY <1>5
<1>7. add[0] = base /\ \A k \in 1 .. n : add[k] = Step(add[k - 1], k)
  <2> HIDE DEF add
  <2> QED  BY <1>2, <1>6
<1> HIDE DEF add
<1>8. Taller(base, add[n])
  <2> DEFINE R == {k \in 0 .. n : Taller(base, add[k])}
  <2>1. 0 \in R
    BY <1>2, <1>3, <1>7, TallerYet DEF Taller
  <2>2. ASSUME NEW k \in 1 .. n, k - 1 \in R PROVE k \in R
    BY <1>4, <1>7, <2>2, TallerYet
  <2>3. 0 .. n \subseteq R
    <3> HIDE DEF R
    <3> QED  BY <1>2, <2>1, <2>2, IntervalInduction
  <2>4. QED  BY <1>2, <2>3
<1>9. QED  BY <1>1, <1>3, <1>8, TallerYet

\* What is in Seq is a list.
LEMMA ListOf ==
  ASSUME NEW S, NEW s \in Seq(S)
  PROVE  IsList(s)
<1>1. DOMAIN s = 1 .. Len(s) /\ Len(s) \in Nat /\ s = [k \in 1 .. Len(s) |-> s[k]]
  OBVIOUS
<1> DEFINE T == Range(s)
<1>2. \A k \in 1 .. Len(s) : s[k] \in T
  BY <1>1 DEF Range
<1> HIDE DEF T
<1>3. s \in Seq(T)
  BY <1>1, <1>2
<1>4. QED  BY <1>3 DEF IsList, T

\* What is left of a list is a list, of elements of it.
LEMMA OnlyIsList ==
  ASSUME NEW s, IsList(s), NEW S
  PROVE  /\ IsList(Only(s, S)) /\ Range(Only(s, S)) = Range(s) \cap S
         /\ DOMAIN Only(s, S) = 1 .. Len(Only(s, S)) /\ Len(Only(s, S)) \in Nat
<1> DEFINE T == Range(s)
<1>1. s \in Seq(T)
  BY DEF IsList
<1> HIDE DEF T
<1>2. Only(s, S) \in Seq(T) /\ Range(Only(s, S)) = Range(s) \cap S
  BY <1>1, OnlyKeeps
<1>3. IsList(Only(s, S))
  BY <1>2, ListOf
<1>4. QED  BY <1>2, <1>3


-----------------------------------------------------------------------------
(* STATUS.txt.  What the mount counts never shrinks while the sources are  *)
(* gone through, whatever they answer.                                     *)

\* A tree with its blob_count, and one that has and counts as much or more.
IsBuilt(v) == v = [tree |-> v.tree, count |-> v.count] /\ v.count \in Nat /\ Standing(v.tree)
Grown(v, w) == IsBuilt(w) /\ v.count <= w.count /\ Taller(v.tree, w.tree)

\* The same of what also has the names it has used.
Growing(v, w) ==
  /\ w = [tree |-> w.tree, count |-> w.count, seen |-> w.seen] /\ w.count \in Nat
  /\ v.count <= w.count /\ Taller(v.tree, w.tree)

\* What has grown can grow on.
LEMMA GrownYet ==
  /\ \A v : IsBuilt(v) => Grown(v, v)
  /\ \A v, w, x : IsBuilt(v) /\ Grown(v, w) /\ Grown(w, x) => Grown(v, x)
<1>1. \A v : IsBuilt(v) => Grown(v, v)
  BY TallerYet DEF Grown, IsBuilt
<1>2. ASSUME NEW v, NEW w, NEW x, IsBuilt(v), Grown(v, w), Grown(w, x) PROVE Grown(v, x)
  <2>1. Taller(v.tree, x.tree)
    BY <1>2, TallerYet DEF Grown
  <2>2. v.count <= x.count
    BY <1>2 DEF Grown, IsBuilt
  <2>3. QED  BY <1>2, <2>1, <2>2 DEF Grown
<1>3. QED  BY <1>1, <1>2

\* A file is one more, and all that is made of the tree alone counts for nothing.
LEMMA OneMore ==
  ASSUME NEW v, IsBuilt(v), NEW t, Taller(v.tree, t)
  PROVE  /\ Grown(v, [tree |-> t, count |-> v.count + 1])
         /\ Grown(v, [v EXCEPT !.tree = t])
         /\ [v EXCEPT !.tree = t].tree = t /\ [v EXCEPT !.tree = t].count = v.count
<1>1. [v EXCEPT !.tree = t] = [tree |-> t, count |-> v.count]
  BY DEF IsBuilt
<1>2. Standing(t) /\ v.count \in Nat
  BY DEF Taller, IsBuilt
<1>3. QED  BY <1>1, <1>2 DEF Grown, IsBuilt

\* Every blob that is handed on is counted.
LEMMA BlobsGrow ==
  ASSUME NEW b, IsBuilt(b), NEW t, Taller(b.tree, t), NEW dir \in 0 .. Len(t), dir # Root,
         NEW ds, IsList(ds), Range(ds) \subseteq DOMAIN Desc
  PROVE  /\ Grown(b, AddBlobs([b EXCEPT !.tree = t], dir, ds))
         /\ AddBlobs([b EXCEPT !.tree = t], dir, ds).count = b.count + Len(ds)
<1> DEFINE S == {d \in Range(ds) : Desc[d].valid}
           v == BuildFromDescriptors(t, dir, Only(ds, S))
<1>1. [b EXCEPT !.tree = t].count = b.count /\ [b EXCEPT !.tree = t].tree = t
  BY OneMore
<1>2. IsList(Only(ds, S)) /\ Range(Only(ds, S)) \subseteq DOMAIN Desc /\ Len(ds) \in Nat
  <2> HIDE DEF S
  <2> QED  BY OnlyIsList, ListLength
<1>3. Taller(t, v)
  <2>1. \A d \in Range(Only(ds, S)) : IsList(DayOf[d])
    BY <1>2, TimeAssumption
  <2>2. Standing(t)
    BY DEF Taller
  <2> HIDE DEF S
  <2>3. QED  BY <1>2, <2>1, <2>2, ViewsStand
<1>4. AddBlobs([b EXCEPT !.tree = t], dir, ds) = [tree |-> v, count |-> b.count + Len(ds)]
  BY <1>1 DEF AddBlobs
<1>5. Taller(b.tree, v) /\ Standing(v)
  BY <1>3, TallerYet DEF Taller
<1> HIDE DEF v
<1>6. QED  BY <1>2, <1>4, <1>5 DEF Grown, IsBuilt

\* Where /public is, if it is there.
LEMMA PublicIs ==
  ASSUME NEW t, Standing(t)
  PROVE  Public(t) \in 0 .. Len(t) /\ Public(t) # Root /\ Len(t) \in Nat /\ Len(t) >= 1
<1>1. Shaped(t) /\ Len(t) \in Nat /\ Len(t) >= 1 /\ Root \in 0 .. Len(t) /\ Root = 1
  BY ShapedIs DEF Standing, Root
<1>2. Public(t) = 0 \/ Public(t) \in Root + 1 .. Len(t)
  BY <1>1, LookupIs DEF Public
<1>3. QED  BY <1>1, <1>2

\* add_manifest of run_mount: the validated ones are counted.
LEMMA ManifestGrows ==
  ASSUME NEW b, IsBuilt(b), NEW all, IsList(all), Range(all) \subseteq DOMAIN Desc
  PROVE  Grown(b, AddManifest(b, all))
<1> DEFINE t == b.tree
           one == AddDirectory(t, Public(t), "local")
           two == AddDirectory(one, Len(t) + 1, "servers")
           dir == AddDirectory(two, Len(t) + 2, "manifest")
<1>1. Standing(t) /\ Public(t) \in 0 .. Len(t) /\ Public(t) # Root /\ Len(t) \in Nat /\ Len(t) >= 1
      /\ Root = 1
  BY PublicIs DEF IsBuilt, Root
<1>2. AddManifest(b, all) = AddBlobs([b EXCEPT !.tree = dir], Len(dir), Validated(all))
  BY DEF AddManifest
<1> HIDE DEF t
<1>3. Taller(t, one) /\ Len(one) = Len(t) + 1
  BY <1>1, AddsStand
<1> HIDE DEF one
<1>4. Standing(one) /\ Len(t) + 1 \in 0 .. Len(one) /\ Len(t) + 1 # Root
  BY <1>1, <1>3 DEF Taller
<1>5. Taller(one, two) /\ Len(two) = Len(one) + 1
  BY <1>4, AddsStand
<1> HIDE DEF two
<1>6. Standing(two) /\ Len(t) + 2 \in 0 .. Len(two) /\ Len(t) + 2 # Root
  BY <1>1, <1>3, <1>5 DEF Taller
<1>7. Taller(two, dir) /\ Len(dir) = Len(two) + 1
  BY <1>6, AddsStand
<1> HIDE DEF dir
<1>8. Taller(b.tree, dir) /\ Len(dir) \in 0 .. Len(dir) /\ Len(dir) # Root
  BY <1>1, <1>3, <1>5, <1>7, TallerYet DEF t
<1>9. IsList(Validated(all)) /\ Range(Validated(all)) \subseteq DOMAIN Desc
  <2> DEFINE S == {d \in Range(all) : Validates(d)}
  <2>1. Validated(all) = Only(all, S)
    BY DEF Validated
  <2> HIDE DEF S
  <2>2. QED  BY <2>1, OnlyIsList
<1>10. QED  BY <1>2, <1>8, <1>9, BlobsGrow

\* The names on a way.
LEMMA NamedIs ==
  ASSUME NEW path, IsList(path)
  PROVE  /\ IsList(Named(path)) /\ Len(Named(path)) \in Nat
         /\ path # <<>> => IsList(Front(path))
<1>1. IsList(Named(path)) /\ Len(Named(path)) \in Nat
  BY OnlyIsList, ListLength DEF Named
<1>2. ASSUME path # <<>> PROVE IsList(Front(path))
  <2>1. path \in Seq(Range(path)) /\ Len(path) > 0
    BY <1>2 DEF IsList
  <2>2. Front(path) \in Seq(Range(path))
    BY <2>1, FrontIs
  <2>3. QED  BY <2>2, ListOf
<1>3. QED  BY <1>1, <1>2

\* The files of one drive; its folders count for nothing.
LEMMA DriveGrows ==
  ASSUME NEW b, IsBuilt(b), NEW pkDir \in 2 .. Len(b.tree), NEW tags, IsList(tags),
         \A g \in Range(tags) : IsEntry(g) => IsList(IF g[1] = "x" THEN g[3] ELSE g[2])
  PROVE  Grown(b, AddDrive(b, pkDir, tags))
<1> DEFINE E == {g \in Range(tags) : IsEntry(g)}
           entries == Only(tags, E)
           drive == Len(b.tree) + 1
           n == Len(entries)
           home == AddDirectory(b.tree, pkDir, LastTag(tags, "d", "default"))
           base == [b EXCEPT !.tree = home]
           Step(v, k) == IF entries[k][1] = "x" THEN AddDriveFile(v, drive, entries[k])
                         ELSE [v EXCEPT !.tree = GetOrCreateFrom(@, drive, Named(entries[k][2])).tree]
           Eq(f) == f = [k \in 0 .. n |-> IF k = 0 THEN base ELSE Step(f[k - 1], k)]
           add == CHOOSE f : Eq(f)
<1>1. AddDrive(b, pkDir, tags) = add[n]
  BY DEF AddDrive
<1>2. n \in Nat /\ DOMAIN entries = 1 .. n /\ Range(entries) \subseteq E
  <2> HIDE DEF E
  <2> QED  BY ListLength, OnlyIsList
<1>3. Grown(b, base) /\ IsBuilt(base) /\ Len(base.tree) = drive /\ drive \in Nat /\ drive >= 2
  <2>1. /\ Standing(b.tree) /\ Len(b.tree) \in Nat /\ Len(b.tree) >= 1
        /\ pkDir \in 0 .. Len(b.tree) /\ pkDir # Root
    BY TallerYet DEF IsBuilt, Root
  <2>2. Taller(b.tree, home) /\ Len(home) = Len(b.tree) + 1
    BY <2>1, AddsStand
  <2> HIDE DEF home
  <2>3. Grown(b, base) /\ base.tree = home
    BY <2>2, OneMore
  <2>4. QED  BY <2>1, <2>2, <2>3 DEF Grown
<1>4. ASSUME NEW k \in 1 .. n, NEW v, Grown(base, v)
      PROVE  Grown(v, Step(v, k))
  <2> DEFINE g == entries[k]
  <2>1. g \in Range(tags) /\ IsEntry(g)
    BY <1>2 DEF Range
  <2> HIDE DEF base, entries
  <2>2. IsBuilt(v) /\ Standing(v.tree) /\ drive \in 2 .. Len(v.tree)
    BY <1>3, <1>4 DEF Grown, Taller
  <2> HIDE DEF drive
  <2>3. CASE g[1] # "x"
    <3> DEFINE r == GetOrCreateFrom(v.tree, drive, Named(g[2]))
    <3>1. Step(v, k) = [v EXCEPT !.tree = r.tree]
      BY <2>3
    <3>2. Len(Named(g[2])) \in Nat
      BY <2>1, <2>3, NamedIs
    <3>3. Taller(v.tree, r.tree)
      <4> HIDE DEF g
      <4> QED  BY <2>2, <3>2, GotFrom
    <3> HIDE DEF r, Step
    <3>4. Grown(v, [v EXCEPT !.tree = r.tree])
      BY <2>2, <3>3, OneMore
    <3>5. QED  BY <3>1, <3>4
  <2>4. CASE g[1] = "x"
    <3> DEFINE r == GetOrCreateFrom(v.tree, drive, Named(Front(g[3])))
               t == AddRemoteFile(r.tree, r.ino, Last(g[3]), g[2])
    <3>1. Step(v, k) = IF g[2] \notin Shas \/ Last(g[3]) = "" THEN v
                       ELSE [tree |-> t, count |-> v.count + 1]
      BY <2>4 DEF AddDriveFile
    <3>2. Len(Named(Front(g[3]))) \in Nat
      BY <2>1, <2>4, NamedIs DEF IsEntry
    <3>3. Taller(v.tree, r.tree) /\ r.ino \in 2 .. Len(r.tree)
      <4> HIDE DEF g
      <4> QED  BY <2>2, <3>2, GotFrom
    <3> HIDE DEF r, Step
    <3>4. Standing(r.tree) /\ r.ino \in 0 .. Len(r.tree) /\ r.ino # Root
      BY <3>3 DEF Taller, Root
    <3>5. Taller(r.tree, t)
      BY <3>4, AddsStand
    <3>6. Taller(v.tree, t)
      BY <3>3, <3>5, TallerYet
    <3> HIDE DEF t
    <3>7. Grown(v, [tree |-> t, count |-> v.count + 1]) /\ Grown(v, v)
      BY <2>2, <3>6, OneMore, GrownYet
    <3>8. QED  BY <3>1, <3>7
  <2>5. QED  BY <2>3, <2>4
<1> HIDE DEF n, base, Step
<1>5. \E g : Eq(g)
  <2> DEFINE Upto(m) == \E g : g = [k \in 0 .. m |-> IF k = 0 THEN base ELSE Step(g[k - 1], k)]
             R == {m \in 0 .. n : Upto(m)}
  <2>1. 0 \in R
    <3> DEFINE g == [k \in 0 .. 0 |-> base]
    <3>1. g = [k \in 0 .. 0 |-> IF k = 0 THEN base ELSE Step(g[k - 1], k)]
      OBVIOUS
    <3>2. Upto(0)
      <4> HIDE DEF g
      <4> QED  BY <3>1
    <3>3. QED
      <4> HIDE DEF Upto
      <4> QED  BY <1>2, <3>2
  <2>2. ASSUME NEW m \in 1 .. n, m - 1 \in R PROVE m \in R
    <3>1. PICK g : g = [k \in 0 .. m - 1 |-> IF k = 0 THEN base ELSE Step(g[k - 1], k)]
      BY <2>2
    <3> DEFINE h == [k \in 0 .. m |-> IF k = m THEN Step(g[m - 1], m) ELSE g[k]]
    <3>2. \A k \in 0 .. m - 1 : h[k] = g[k] /\ g[k] = IF k = 0 THEN base ELSE Step(g[k - 1], k)
      <4>1. m \in Nat
        BY <1>2
      <4>2. ASSUME NEW k \in 0 .. m - 1 PROVE h[k] = g[k]
        BY <4>1
      <4>3. ASSUME NEW k \in 0 .. m - 1
            PROVE  g[k] = IF k = 0 THEN base ELSE Step(g[k - 1], k)
        <5> HIDE DEF h
        <5> QED  BY <3>1
      <4>4. QED
        <5> HIDE DEF h
        <5> QED  BY <4>2, <4>3
    <3>3. h[m] = Step(h[m - 1], m)
      BY <1>2
    <3>4. ASSUME NEW k \in 0 .. m PROVE h[k] = IF k = 0 THEN base ELSE Step(h[k - 1], k)
      <4>1. CASE k = m
        BY <1>2, <3>3, <4>1
      <4>2. CASE k \in 0 .. m - 1 /\ k # 0
        <5>1. k - 1 \in 0 .. m - 1
          BY <1>2, <4>2
        <5> HIDE DEF h
        <5>2. QED  BY <3>2, <4>2, <5>1
      <4>3. CASE k \in 0 .. m - 1 /\ k = 0
        BY <3>2, <4>3
      <4>4. QED  BY <1>2, <4>1, <4>2, <4>3
    <3>5. h = [k \in 0 .. m |-> h[k]]
      OBVIOUS
    <3>6. Upto(m)
      <4> HIDE DEF h
      <4>1. h = [k \in 0 .. m |-> IF k = 0 THEN base ELSE Step(h[k - 1], k)]
        BY <3>4, <3>5
      <4>2. QED  BY <4>1
    <3>7. QED
      <4> HIDE DEF Upto
      <4> QED  BY <1>2, <3>6
  <2>3. 0 .. n \subseteq R
    <3> HIDE DEF R
    <3> QED  BY <1>2, <2>1, <2>2, IntervalInduction
  <2>4. Upto(n)
    <3> HIDE DEF Upto
    <3> QED  BY <1>2, <2>3
  <2>5. QED  BY <2>4
<1>6. Eq(add)
  <2> HIDE DEF Eq
  <2> QED  BY <1>5
<1>7. add[0] = base /\ \A k \in 1 .. n : add[k] = Step(add[k - 1], k)
  <2> HIDE DEF add
  <2> QED  BY <1>2, <1>6
<1> HIDE DEF add
<1>8. Grown(base, add[n])
  <2> DEFINE R == {k \in 0 .. n : Grown(base, add[k])}
  <2>1. 0 \in R
    BY <1>2, <1>3, <1>7, GrownYet
  <2>2. ASSUME NEW k \in 1 .. n, k - 1 \in R PROVE k \in R
    BY <1>3, <1>4, <1>7, <2>2, GrownYet
  <2>3. 0 .. n \subseteq R
    <3> HIDE DEF R
    <3> QED  BY <1>2, <2>1, <2>2, IntervalInduction
  <2>4. QED  BY <1>2, <2>3
<1>9. QED  BY <1>1, <1>3, <1>8, GrownYet

\* Of all drives.
LEMMA DrivesGrow ==
  ASSUME NEW b, IsBuilt(b), NEW pk, NEW events, IsList(events),
         \A k \in DOMAIN events :
           /\ IsList(events[k])
           /\ \A g \in Range(events[k]) : IsEntry(g) => IsList(IF g[1] = "x" THEN g[3] ELSE g[2])
  PROVE  Grown(b, AddDrives(b, pk, events))
<1> DEFINE one == AddDirectory(b.tree, Root, "drives")
           dirs == AddDirectory(one, Len(b.tree) + 1, pk)
           n == Len(events)
           base == [b EXCEPT !.tree = dirs]
           Step(v, k) == AddDrive(v, Len(b.tree) + 2, events[k])
           Eq(f) == f = [k \in 0 .. n |-> IF k = 0 THEN base ELSE Step(f[k - 1], k)]
           add == CHOOSE f : Eq(f)
<1>1. AddDrives(b, pk, events) = add[n]
  BY DEF AddDrives
<1>2. n \in Nat /\ DOMAIN events = 1 .. n
  BY ListLength
<1>3. /\ Grown(b, base) /\ IsBuilt(base) /\ Len(base.tree) = Len(b.tree) + 2
      /\ Len(b.tree) \in Nat /\ Len(b.tree) >= 1
  <2>1. Standing(b.tree) /\ Len(b.tree) \in Nat /\ Len(b.tree) >= 1
    BY TallerYet DEF IsBuilt
  <2>2. Taller(b.tree, one) /\ Len(one) = Len(b.tree) + 1
    BY <2>1, RootAdds DEF Generated
  <2> HIDE DEF one
  <2>3. Standing(one) /\ Len(b.tree) + 1 \in 0 .. Len(one) /\ Len(b.tree) + 1 # Root
    BY <2>1, <2>2 DEF Taller, Root
  <2>4. Taller(one, dirs) /\ Len(dirs) = Len(one) + 1
    BY <2>3, AddsStand
  <2> HIDE DEF dirs
  <2>5. Grown(b, base) /\ base.tree = dirs
    BY <2>2, <2>4, OneMore, TallerYet
  <2>6. QED  BY <2>1, <2>2, <2>4, <2>5 DEF Grown
<1>4. ASSUME NEW k \in 1 .. n, NEW v, Grown(base, v)
      PROVE  Grown(v, Step(v, k))
  <2> HIDE DEF base
  <2>1. IsBuilt(v) /\ Len(b.tree) + 2 \in 2 .. Len(v.tree)
    BY <1>3, <1>4 DEF Grown, Taller
  <2>2. QED  BY <1>2, <2>1, DriveGrows
<1> HIDE DEF n, base, Step
<1>5. \E g : Eq(g)
  <2> DEFINE Upto(m) == \E g : g = [k \in 0 .. m |-> IF k = 0 THEN base ELSE Step(g[k - 1], k)]
             R == {m \in 0 .. n : Upto(m)}
  <2>1. 0 \in R
    <3> DEFINE g == [k \in 0 .. 0 |-> base]
    <3>1. g = [k \in 0 .. 0 |-> IF k = 0 THEN base ELSE Step(g[k - 1], k)]
      OBVIOUS
    <3>2. Upto(0)
      <4> HIDE DEF g
      <4> QED  BY <3>1
    <3>3. QED
      <4> HIDE DEF Upto
      <4> QED  BY <1>2, <3>2
  <2>2. ASSUME NEW m \in 1 .. n, m - 1 \in R PROVE m \in R
    <3>1. PICK g : g = [k \in 0 .. m - 1 |-> IF k = 0 THEN base ELSE Step(g[k - 1], k)]
      BY <2>2
    <3> DEFINE h == [k \in 0 .. m |-> IF k = m THEN Step(g[m - 1], m) ELSE g[k]]
    <3>2. \A k \in 0 .. m - 1 : h[k] = g[k] /\ g[k] = IF k = 0 THEN base ELSE Step(g[k - 1], k)
      <4>1. m \in Nat
        BY <1>2
      <4>2. ASSUME NEW k \in 0 .. m - 1 PROVE h[k] = g[k]
        BY <4>1
      <4>3. ASSUME NEW k \in 0 .. m - 1
            PROVE  g[k] = IF k = 0 THEN base ELSE Step(g[k - 1], k)
        <5> HIDE DEF h
        <5> QED  BY <3>1
      <4>4. QED
        <5> HIDE DEF h
        <5> QED  BY <4>2, <4>3
    <3>3. h[m] = Step(h[m - 1], m)
      BY <1>2
    <3>4. ASSUME NEW k \in 0 .. m PROVE h[k] = IF k = 0 THEN base ELSE Step(h[k - 1], k)
      <4>1. CASE k = m
        BY <1>2, <3>3, <4>1
      <4>2. CASE k \in 0 .. m - 1 /\ k # 0
        <5>1. k - 1 \in 0 .. m - 1
          BY <1>2, <4>2
        <5> HIDE DEF h
        <5>2. QED  BY <3>2, <4>2, <5>1
      <4>3. CASE k \in 0 .. m - 1 /\ k = 0
        BY <3>2, <4>3
      <4>4. QED  BY <1>2, <4>1, <4>2, <4>3
    <3>5. h = [k \in 0 .. m |-> h[k]]
      OBVIOUS
    <3>6. Upto(m)
      <4> HIDE DEF h
      <4>1. h = [k \in 0 .. m |-> IF k = 0 THEN base ELSE Step(h[k - 1], k)]
        BY <3>4, <3>5
      <4>2. QED  BY <4>1
    <3>7. QED
      <4> HIDE DEF Upto
      <4> QED  BY <1>2, <3>6
  <2>3. 0 .. n \subseteq R
    <3> HIDE DEF R
    <3> QED  BY <1>2, <2>1, <2>2, IntervalInduction
  <2>4. Upto(n)
    <3> HIDE DEF Upto
    <3> QED  BY <1>2, <2>3
  <2>5. QED  BY <2>4
<1>6. Eq(add)
  <2> HIDE DEF Eq
  <2> QED  BY <1>5
<1>7. add[0] = base /\ \A k \in 1 .. n : add[k] = Step(add[k - 1], k)
  <2> HIDE DEF add
  <2> QED  BY <1>2, <1>6
<1> HIDE DEF add
<1>8. Grown(base, add[n])
  <2> DEFINE R == {k \in 0 .. n : Grown(base, add[k])}
  <2>1. 0 \in R
    BY <1>2, <1>3, <1>7, GrownYet
  <2>2. ASSUME NEW k \in 1 .. n, k - 1 \in R PROVE k \in R
    BY <1>3, <1>4, <1>7, <2>2, GrownYet
  <2>3. 0 .. n \subseteq R
    <3> HIDE DEF R
    <3> QED  BY <1>2, <2>1, <2>2, IntervalInduction
  <2>4. QED  BY <1>2, <2>3
<1>9. QED  BY <1>1, <1>3, <1>8, GrownYet


\* The releases: a file for each that has a URL.
LEMMA ReleasesGrow ==
  ASSUME NEW b, IsBuilt(b), NEW releases, Len(releases) \in Nat
  PROVE  Grown(b, AddReleases(b, releases))
<1> DEFINE root == Len(b.tree) + 1
           Goes(v, k) == GetOrCreateFrom(v.tree, root, ReleasePath(releases[k]))
           n == Len(releases)
           top == AddDirectory(b.tree, Root, "tollgate")
           base == [b EXCEPT !.tree = top]
           Step(v, k) == IF BestUrl(releases[k].urls) = ""
                         THEN [v EXCEPT !.tree = Goes(v, k).tree]
                         ELSE [tree |-> AddRemoteFile(Goes(v, k).tree, Goes(v, k).ino,
                                           releases[k].filename, releases[k].sha),
                               count |-> v.count + 1]
           Eq(f) == f = [k \in 0 .. n |-> IF k = 0 THEN base ELSE Step(f[k - 1], k)]
           add == CHOOSE f : Eq(f)
<1>1. AddReleases(b, releases) = IF releases = <<>> THEN b ELSE add[n]
  BY DEF AddReleases
<1>2. n \in Nat
  OBVIOUS
<1>3. Grown(b, base) /\ IsBuilt(base) /\ Len(base.tree) = root /\ root \in Nat /\ root >= 2
  <2>1. Standing(b.tree) /\ Len(b.tree) \in Nat /\ Len(b.tree) >= 1
    BY TallerYet DEF IsBuilt
  <2>2. Taller(b.tree, top) /\ Len(top) = Len(b.tree) + 1
    BY <2>1, RootAdds DEF Generated
  <2> HIDE DEF top
  <2>3. Grown(b, base) /\ base.tree = top
    BY <2>2, OneMore
  <2>4. QED  BY <2>1, <2>2, <2>3 DEF Grown
<1>4. ASSUME NEW k \in 1 .. n, NEW v, Grown(base, v)
      PROVE  Grown(v, Step(v, k))
  <2> DEFINE path == ReleasePath(releases[k])
             name == releases[k].filename
             sha == releases[k].sha
             r == GetOrCreateFrom(v.tree, root, path)
             t == AddRemoteFile(r.tree, r.ino, name, sha)
  <2>1. Step(v, k) = IF BestUrl(releases[k].urls) = "" THEN [v EXCEPT !.tree = r.tree]
                     ELSE [tree |-> t, count |-> v.count + 1]
    OBVIOUS
  <2>2. Len(path) \in Nat
    BY DEF ReleasePath
  <2> HIDE DEF base, path, name, sha, Step
  <2>3. IsBuilt(v) /\ Standing(v.tree) /\ root \in 2 .. Len(v.tree)
    BY <1>3, <1>4 DEF Grown, Taller
  <2> HIDE DEF root
  <2>4. Taller(v.tree, r.tree) /\ r.ino \in 2 .. Len(r.tree)
    BY <2>2, <2>3, GotFrom
  <2> HIDE DEF r
  <2>5. Standing(r.tree) /\ r.ino \in 0 .. Len(r.tree) /\ r.ino # Root
    BY <2>4 DEF Taller, Root
  <2>6. Taller(r.tree, t)
    BY <2>5, AddsStand
  <2>7. Taller(v.tree, t)
    BY <2>4, <2>6, TallerYet
  <2> HIDE DEF t
  <2>8. Grown(v, [tree |-> t, count |-> v.count + 1]) /\ Grown(v, [v EXCEPT !.tree = r.tree])
    BY <2>3, <2>4, <2>7, OneMore
  <2>9. QED  BY <2>1, <2>8
<1> HIDE DEF n, base, Step
<1>5. \E g : Eq(g)
  <2> DEFINE Upto(m) == \E g : g = [k \in 0 .. m |-> IF k = 0 THEN base ELSE Step(g[k - 1], k)]
             R == {m \in 0 .. n : Upto(m)}
  <2>1. 0 \in R
    <3> DEFINE g == [k \in 0 .. 0 |-> base]
    <3>1. g = [k \in 0 .. 0 |-> IF k = 0 THEN base ELSE Step(g[k - 1], k)]
      OBVIOUS
    <3>2. Upto(0)
      <4> HIDE DEF g
      <4> QED  BY <3>1
    <3>3. QED
      <4> HIDE DEF Upto
      <4> QED  BY <1>2, <3>2
  <2>2. ASSUME NEW m \in 1 .. n, m - 1 \in R PROVE m \in R
    <3>1. PICK g : g = [k \in 0 .. m - 1 |-> IF k = 0 THEN base ELSE Step(g[k - 1], k)]
      BY <2>2
    <3> DEFINE h == [k \in 0 .. m |-> IF k = m THEN Step(g[m - 1], m) ELSE g[k]]
    <3>2. \A k \in 0 .. m - 1 : h[k] = g[k] /\ g[k] = IF k = 0 THEN base ELSE Step(g[k - 1], k)
      <4>1. m \in Nat
        BY <1>2
      <4>2. ASSUME NEW k \in 0 .. m - 1 PROVE h[k] = g[k]
        BY <4>1
      <4>3. ASSUME NEW k \in 0 .. m - 1
            PROVE  g[k] = IF k = 0 THEN base ELSE Step(g[k - 1], k)
        <5> HIDE DEF h
        <5> QED  BY <3>1
      <4>4. QED
        <5> HIDE DEF h
        <5> QED  BY <4>2, <4>3
    <3>3. h[m] = Step(h[m - 1], m)
      BY <1>2
    <3>4. ASSUME NEW k \in 0 .. m PROVE h[k] = IF k = 0 THEN base ELSE Step(h[k - 1], k)
      <4>1. CASE k = m
        BY <1>2, <3>3, <4>1
      <4>2. CASE k \in 0 .. m - 1 /\ k # 0
        <5>1. k - 1 \in 0 .. m - 1
          BY <1>2, <4>2
        <5> HIDE DEF h
        <5>2. QED  BY <3>2, <4>2, <5>1
      <4>3. CASE k \in 0 .. m - 1 /\ k = 0
        BY <3>2, <4>3
      <4>4. QED  BY <1>2, <4>1, <4>2, <4>3
    <3>5. h = [k \in 0 .. m |-> h[k]]
      OBVIOUS
    <3>6. Upto(m)
      <4> HIDE DEF h
      <4>1. h = [k \in 0 .. m |-> IF k = 0 THEN base ELSE Step(h[k - 1], k)]
        BY <3>4, <3>5
      <4>2. QED  BY <4>1
    <3>7. QED
      <4> HIDE DEF Upto
      <4> QED  BY <1>2, <3>6
  <2>3. 0 .. n \subseteq R
    <3> HIDE DEF R
    <3> QED  BY <1>2, <2>1, <2>2, IntervalInduction
  <2>4. Upto(n)
    <3> HIDE DEF Upto
    <3> QED  BY <1>2, <2>3
  <2>5. QED  BY <2>4
<1>6. Eq(add)
  <2> HIDE DEF Eq
  <2> QED  BY <1>5
<1>7. add[0] = base /\ \A k \in 1 .. n : add[k] = Step(add[k - 1], k)
  <2> HIDE DEF add
  <2> QED  BY <1>2, <1>6
<1> HIDE DEF add
<1>8. Grown(base, add[n])
  <2> DEFINE R == {k \in 0 .. n : Grown(base, add[k])}
  <2>1. 0 \in R
    BY <1>2, <1>3, <1>7, GrownYet
  <2>2. ASSUME NEW k \in 1 .. n, k - 1 \in R PROVE k \in R
    BY <1>3, <1>4, <1>7, <2>2, GrownYet
  <2>3. 0 .. n \subseteq R
    <3> HIDE DEF R
    <3> QED  BY <1>2, <2>1, <2>2, IntervalInduction
  <2>4. QED  BY <1>2, <2>3
<1>9. Grown(b, b) /\ Grown(b, add[n])
  BY <1>3, <1>8, GrownYet
<1>10. QED  BY <1>1, <1>9

\* What was grown so far is grown on.
LEMMA GrowingYet ==
  ASSUME NEW u, NEW v, NEW w, u.count \in Nat, Growing(u, v), Growing(v, w)
  PROVE  Growing(u, w)
<1>1. Taller(u.tree, w.tree)
  BY TallerYet DEF Growing
<1>2. QED  BY <1>1 DEF Growing

\* The records of files, and the releases among them.
LEMMA MetadataGrows ==
  ASSUME NEW b, IsBuilt(b), NEW pk, NEW records, IsList(records)
  PROVE  Grown(b, AddNip94(b, pk, records))
<1> DEFINE meta == Len(b.tree) + 1
           dir == Len(b.tree) + 3
           one == AddDirectory(b.tree, Root, "metadata")
           two == AddDirectory(one, Root, "nip94")
           dirs == AddDirectory(two, Len(b.tree) + 2, pk)
           One(v, k) == AddStaticFile(v.tree, meta, Meta(records[k]).sha \o ".json")
           U(v, k) == UniqueName(Meta(records[k]), v.seen)
           n == Len(records)
           base == [tree |-> dirs, count |-> b.count, seen |-> {}]
           Step(v, k) == IF Meta(records[k]).sha \notin Shas THEN v
                         ELSE IF Meta(records[k]).url = Absent THEN [v EXCEPT !.tree = One(v, k)]
                         ELSE [tree |-> AddRemoteFile(One(v, k), dir, U(v, k).shown, Meta(records[k]).sha),
                               count |-> v.count + 1, seen |-> v.seen \union {U(v, k).name}]
           Eq(f) == f = [k \in 0 .. n |-> IF k = 0 THEN base ELSE Step(f[k - 1], k)]
           add == CHOOSE f : Eq(f)
<1>1. AddNip94(b, pk, records)
        = AddReleases([tree |-> add[n].tree, count |-> add[n].count], ReleasesOf(records))
  BY DEF AddNip94
<1>2. n \in Nat
  BY ListLength
<1>3. /\ Growing(b, base) /\ base.tree = dirs /\ base.count = b.count /\ b.count \in Nat
      /\ Len(dirs) = dir /\ Len(b.tree) \in Nat /\ Len(b.tree) >= 1
  <2>1. Standing(b.tree) /\ Len(b.tree) \in Nat /\ Len(b.tree) >= 1
    BY TallerYet DEF IsBuilt
  <2>2. Taller(b.tree, one) /\ Len(one) = Len(b.tree) + 1
    BY <2>1, RootAdds DEF Generated
  <2> HIDE DEF one
  <2>3. Taller(one, two) /\ Len(two) = Len(one) + 1
    BY <2>2, RootAdds DEF Generated, Taller
  <2> HIDE DEF two
  <2>4. Standing(two) /\ Len(b.tree) + 2 \in 0 .. Len(two) /\ Len(b.tree) + 2 # Root
    BY <2>1, <2>2, <2>3 DEF Taller, Root
  <2>5. Taller(two, dirs) /\ Len(dirs) = Len(two) + 1
    BY <2>4, AddsStand
  <2> HIDE DEF dirs
  <2>6. Taller(b.tree, dirs)
    BY <2>2, <2>3, <2>5, TallerYet
  <2>7. QED  BY <2>1, <2>2, <2>3, <2>5, <2>6 DEF Growing, IsBuilt
<1>4. ASSUME NEW k \in 1 .. n, NEW v, Growing(base, v)
      PROVE  Growing(v, Step(v, k))
  <2> DEFINE t == One(v, k)
             m == Meta(records[k])
             u == U(v, k)
             w == AddRemoteFile(t, dir, u.shown, m.sha)
             j == m.sha \o ".json"
  <2>1. Step(v, k) = IF m.sha \notin Shas THEN v
                     ELSE IF m.url = Absent THEN [v EXCEPT !.tree = t]
                     ELSE [tree |-> w, count |-> v.count + 1, seen |-> v.seen \union {u.name}]
    OBVIOUS
  <2>2. t = AddStaticFile(v.tree, meta, j)
    OBVIOUS
  <2> HIDE DEF m, u, Step, One, j, base, dirs
  <2>3. /\ Standing(v.tree) /\ Len(v.tree) \in Nat /\ v.count \in Nat
        /\ meta \in 0 .. Len(v.tree) /\ meta # Root
        /\ dir \in 0 .. Len(v.tree) /\ dir # Root
    BY <1>3, <1>4 DEF Growing, Taller, Root
  <2> HIDE DEF meta, dir, t
  <2>4. Taller(v.tree, t) /\ Len(t) = Len(v.tree) + 1
    <3> DEFINE x == AddStaticFile(v.tree, meta, j)
    <3>1. Taller(v.tree, x) /\ Len(x) = Len(v.tree) + 1
      BY <2>3, AddsStand
    <3>2. QED  BY <2>2, <3>1
  <2>5. Standing(t) /\ dir \in 0 .. Len(t)
    BY <2>3, <2>4 DEF Taller
  <2>6. Taller(t, w)
    BY <2>3, <2>5, AddsStand
  <2> HIDE DEF w
  <2>7. Taller(v.tree, w) /\ Taller(v.tree, v.tree)
    BY <2>3, <2>4, <2>6, TallerYet
  <2>8. v = [tree |-> v.tree, count |-> v.count, seen |-> v.seen]
    BY <1>4 DEF Growing
  <2>9. /\ Growing(v, v) /\ Growing(v, [v EXCEPT !.tree = t])
        /\ \A s : Growing(v, [tree |-> w, count |-> v.count + 1, seen |-> s])
    BY <2>3, <2>4, <2>7, <2>8 DEF Growing
  <2>10. QED  BY <2>1, <2>9, Zenon
<1> HIDE DEF n, base, Step
<1>5. \E g : Eq(g)
  <2> DEFINE Upto(m) == \E g : g = [k \in 0 .. m |-> IF k = 0 THEN base ELSE Step(g[k - 1], k)]
             R == {m \in 0 .. n : Upto(m)}
  <2>1. 0 \in R
    <3> DEFINE g == [k \in 0 .. 0 |-> base]
    <3>1. g = [k \in 0 .. 0 |-> IF k = 0 THEN base ELSE Step(g[k - 1], k)]
      OBVIOUS
    <3>2. Upto(0)
      <4> HIDE DEF g
      <4> QED  BY <3>1
    <3>3. QED
      <4> HIDE DEF Upto
      <4> QED  BY <1>2, <3>2
  <2>2. ASSUME NEW m \in 1 .. n, m - 1 \in R PROVE m \in R
    <3>1. PICK g : g = [k \in 0 .. m - 1 |-> IF k = 0 THEN base ELSE Step(g[k - 1], k)]
      BY <2>2
    <3> DEFINE h == [k \in 0 .. m |-> IF k = m THEN Step(g[m - 1], m) ELSE g[k]]
    <3>2. \A k \in 0 .. m - 1 : h[k] = g[k] /\ g[k] = IF k = 0 THEN base ELSE Step(g[k - 1], k)
      <4>1. m \in Nat
        BY <1>2
      <4>2. ASSUME NEW k \in 0 .. m - 1 PROVE h[k] = g[k]
        BY <4>1
      <4>3. ASSUME NEW k \in 0 .. m - 1
            PROVE  g[k] = IF k = 0 THEN base ELSE Step(g[k - 1], k)
        <5> HIDE DEF h
        <5> QED  BY <3>1
      <4>4. QED
        <5> HIDE DEF h
        <5> QED  BY <4>2, <4>3
    <3>3. h[m] = Step(h[m - 1], m)
      BY <1>2
    <3>4. ASSUME NEW k \in 0 .. m PROVE h[k] = IF k = 0 THEN base ELSE Step(h[k - 1], k)
      <4>1. CASE k = m
        BY <1>2, <3>3, <4>1
      <4>2. CASE k \in 0 .. m - 1 /\ k # 0
        <5>1. k - 1 \in 0 .. m - 1
          BY <1>2, <4>2
        <5> HIDE DEF h
        <5>2. QED  BY <3>2, <4>2, <5>1
      <4>3. CASE k \in 0 .. m - 1 /\ k = 0
        BY <3>2, <4>3
      <4>4. QED  BY <1>2, <4>1, <4>2, <4>3
    <3>5. h = [k \in 0 .. m |-> h[k]]
      OBVIOUS
    <3>6. Upto(m)
      <4> HIDE DEF h
      <4>1. h = [k \in 0 .. m |-> IF k = 0 THEN base ELSE Step(h[k - 1], k)]
        BY <3>4, <3>5
      <4>2. QED  BY <4>1
    <3>7. QED
      <4> HIDE DEF Upto
      <4> QED  BY <1>2, <3>6
  <2>3. 0 .. n \subseteq R
    <3> HIDE DEF R
    <3> QED  BY <1>2, <2>1, <2>2, IntervalInduction
  <2>4. Upto(n)
    <3> HIDE DEF Upto
    <3> QED  BY <1>2, <2>3
  <2>5. QED  BY <2>4
<1>6. Eq(add)
  <2> HIDE DEF Eq
  <2> QED  BY <1>5
<1>7. add[0] = base /\ \A k \in 1 .. n : add[k] = Step(add[k - 1], k)
  <2> HIDE DEF add
  <2> QED  BY <1>2, <1>6
<1> HIDE DEF add
<1>8. Growing(base, add[n])
  <2> DEFINE R == {k \in 0 .. n : Growing(base, add[k])}
  <2>1. 0 \in R
    <3>1. Growing(base, base)
      BY <1>3, TallerYet DEF Growing, Taller, base
    <3>2. QED  BY <1>2, <1>7, <3>1
  <2>2. ASSUME NEW k \in 1 .. n, k - 1 \in R PROVE k \in R
    <3>1. Growing(base, add[k - 1]) /\ Growing(add[k - 1], add[k])
      BY <1>4, <1>7, <2>2
    <3>2. QED  BY <1>3, <3>1, GrowingYet
  <2>3. 0 .. n \subseteq R
    <3> HIDE DEF R
    <3> QED  BY <1>2, <2>1, <2>2, IntervalInduction
  <2>4. QED  BY <1>2, <2>3
<1>9. Len(ReleasesOf(records)) \in Nat
  <2> DEFINE parsed == [k \in DOMAIN records |-> Release(records[k])]
  <2>1. IsList(parsed)
    <3>1. parsed = [k \in DOMAIN records |-> parsed[k]]
      OBVIOUS
    <3> HIDE DEF parsed
    <3>2. QED  BY <3>1, MappedLength
  <2>2. ReleasesOf(records) = Only(parsed, {r \in Range(parsed) : IsRelease(r) /\ r.sha \in Shas})
    BY DEF ReleasesOf
  <2> HIDE DEF parsed
  <2>3. QED  BY <2>1, <2>2, ListLength
<1>10. Growing(b, add[n])
  BY <1>3, <1>8, GrowingYet
<1> DEFINE files == [tree |-> add[n].tree, count |-> add[n].count]
<1>11. Grown(b, files)
  BY <1>10 DEF Grown, Growing, IsBuilt, Taller
<1> HIDE DEF files
<1>12. Grown(files, AddReleases(files, ReleasesOf(records)))
  BY <1>9, <1>11, ReleasesGrow DEF Grown
<1>13. Grown(b, AddReleases(files, ReleasesOf(records)))
  BY <1>11, <1>12, GrownYet
<1>14. QED  BY <1>1, <1>13 DEF files


\* A path of one name, or of two, has a way to it.
LEMMA ShortPaths ==
  \A a, b : /\ Len(Front(<<a>>)) \in Nat /\ Len(Front(<<a, b>>)) \in Nat
<1> SUFFICES ASSUME NEW a, NEW b
             PROVE  Len(Front(<<a>>)) \in Nat /\ Len(Front(<<a, b>>)) \in Nat
  OBVIOUS
<1> DEFINE S == {a, b}
<1>1. <<a>> \in Seq(S) /\ <<a, b>> \in Seq(S) /\ Len(<<a>>) = 1 /\ Len(<<a, b>>) = 2
  OBVIOUS
<1> HIDE DEF S
<1>2. Len(<<a>>) > 0 /\ Len(<<a, b>>) > 0
  BY <1>1
<1>3. \A s \in Seq(S) : Len(s) > 0 => Front(s) \in Seq(S)
  BY FrontIs
<1>4. Front(<<a>>) \in Seq(S) /\ Front(<<a, b>>) \in Seq(S)
  BY <1>1, <1>2, <1>3
<1>5. QED  BY <1>4

\* What is filed below a repository.
IsFiled(f) == (\E a : f = <<a>>) \/ (\E a, b : f = <<a, b>>)

\* Nothing else is.
LEMMA FilesAre ==
  ASSUME NEW repo, NEW events, IsList(events)
  PROVE  LET own == <<<<"INFO.md">>>>
                      \o (IF repo.clone # <<>> THEN <<<<"CLONE_URLS.txt">>>> ELSE <<>>)
             files == own \o FilesOf(repo, events)
         IN  Len(files) \in Nat /\ \A k \in 1 .. Len(files) : IsFiled(files[k])
<1> DEFINE of(kind) == Only(events, {e \in Range(events) : e.kind = kind /\ About(e) = repo.addr})
           all == of("issue") \o of("patch")
           own == <<<<"INFO.md">>>> \o (IF repo.clone # <<>> THEN <<<<"CLONE_URLS.txt">>>> ELSE <<>>)
           files == own \o FilesOf(repo, events)
<1>1. ASSUME NEW kind PROVE of(kind) \in Seq(Range(events))
  <2> DEFINE T == Range(events)
             S == {e \in Range(events) : e.kind = kind /\ About(e) = repo.addr}
  <2>1. events \in Seq(T)
    BY DEF IsList
  <2> HIDE DEF T, S
  <2>2. Only(events, S) \in Seq(T)
    BY <2>1, OnlyPicks
  <2>3. QED  BY <2>2 DEF T, S
<1> HIDE DEF of
<1>2. all \in Seq(Range(events))
  BY <1>1
<1>3. FilesOf(repo, events) = [k \in DOMAIN all |-> Filed(all[k])]
  BY DEF FilesOf, of
<1> HIDE DEF all
<1> DEFINE O == {<<"INFO.md">>, <<"CLONE_URLS.txt">>}
           F == {Filed(all[k]) : k \in DOMAIN all} \union O
<1>4. FilesOf(repo, events) \in Seq(F)
  <2>1. DOMAIN all = 1 .. Len(all) /\ Len(all) \in Nat
    BY <1>2
  <2>2. \A k \in DOMAIN all : Filed(all[k]) \in F
    OBVIOUS
  <2> HIDE DEF F
  <2>3. FilesOf(repo, events) \in [1 .. Len(all) -> F]
    BY <1>3, <2>1, <2>2
  <2>4. QED  BY <2>1, <2>3
<1>5. own \in Seq(F)
  <2> DEFINE info == <<"INFO.md">>
             urls == <<"CLONE_URLS.txt">>
  <2>1. info \in F /\ urls \in F
    OBVIOUS
  <2> HIDE DEF info, urls, F
  <2>2. <<info>> \in Seq(F) /\ <<urls>> \in Seq(F) /\ <<>> \in Seq(F)
    BY <2>1
  <2>3. <<info>> \o (IF repo.clone # <<>> THEN <<urls>> ELSE <<>>) \in Seq(F)
    BY <2>2
  <2>4. QED  BY <2>3 DEF info, urls
<1>6. \A f \in F : IsFiled(f)
  BY DEF IsFiled, Filed
<1> HIDE DEF F, own
<1>7. files \in Seq(F)
  BY <1>4, <1>5
<1> HIDE DEF files
<1>8. Len(files) \in Nat /\ \A k \in 1 .. Len(files) : files[k] \in F
  BY <1>7
<1>9. QED  BY <1>6, <1>8 DEF files, own

\* The files of one repository are counted, INFO.md and all.
LEMMA RepoGrows ==
  ASSUME NEW b, IsBuilt(b), NEW pkDir \in 2 .. Len(b.tree), NEW repo,
         NEW events, IsList(events), NEW clone
  PROVE  Grown(b, AddRepo(b, pkDir, repo, events, clone))
<1> DEFINE lazy == clone /\ repo.clone # <<>>
           made == AddLazyDir(b.tree, pkDir, repo.id)
           dir == IF lazy THEN [tree |-> made, ino |-> Len(b.tree) + 1]
                  ELSE GetOrCreateDir(b.tree, pkDir, repo.id)
           own == <<<<"INFO.md">>>> \o (IF repo.clone # <<>> THEN <<<<"CLONE_URLS.txt">>>> ELSE <<>>)
           files == own \o FilesOf(repo, events)
           n == Len(files)
           base == dir.tree
           Goes(v, k) == GetOrCreateFrom(v, dir.ino, Front(files[k]))
           Step(v, k) == AddStaticFile(Goes(v, k).tree, Goes(v, k).ino, Last(files[k]))
           Eq(f) == f = [k \in 0 .. n |-> IF k = 0 THEN base ELSE Step(f[k - 1], k)]
           add == CHOOSE f : Eq(f)
<1>1. AddRepo(b, pkDir, repo, events, clone) = [tree |-> add[n], count |-> b.count + n]
  BY DEF AddRepo
<1>2. n \in Nat /\ \A k \in 1 .. n : IsFiled(files[k])
  BY FilesAre
<1> HIDE DEF files
<1>3. Taller(b.tree, base) /\ dir.ino \in 2 .. Len(base)
  <2>1. /\ Standing(b.tree) /\ Len(b.tree) \in Nat /\ Len(b.tree) >= 1
        /\ pkDir \in 0 .. Len(b.tree) /\ pkDir # Root
    BY TallerYet DEF IsBuilt, Root
  <2>2. Taller(b.tree, made) /\ Len(made) = Len(b.tree) + 1
    BY <2>1, AddsStand
  <2> HIDE DEF made
  <2>3. CASE lazy
    <3>1. dir = [tree |-> made, ino |-> Len(b.tree) + 1]
      BY <2>3
    <3> HIDE DEF dir
    <3>2. QED  BY <2>1, <2>2, <3>1
  <2>4. CASE ~lazy
    <3>1. dir = GetOrCreateDir(b.tree, pkDir, repo.id)
      BY <2>4
    <3> HIDE DEF dir
    <3>2. QED  BY <2>1, <3>1, GotDir
  <2>5. QED  BY <2>3, <2>4
<1> HIDE DEF dir
<1>4. ASSUME NEW k \in 1 .. n, NEW v, Taller(base, v)
      PROVE  Taller(v, Step(v, k))
  <2> DEFINE path == Front(files[k])
             r == GetOrCreateFrom(v, dir.ino, path)
             t == AddStaticFile(r.tree, r.ino, Last(files[k]))
  <2>1. Step(v, k) = t
    OBVIOUS
  <2>2. Len(path) \in Nat
    BY <1>2, ShortPaths DEF IsFiled
  <2> HIDE DEF path, Step
  <2>3. Standing(v) /\ dir.ino \in 2 .. Len(v)
    BY <1>3, <1>4 DEF Taller
  <2>4. Taller(v, r.tree) /\ r.ino \in 2 .. Len(r.tree)
    BY <2>2, <2>3, GotFrom
  <2> HIDE DEF r
  <2>5. Standing(r.tree) /\ r.ino \in 0 .. Len(r.tree) /\ r.ino # Root
    BY <2>4 DEF Taller, Root
  <2>6. Taller(r.tree, t)
    BY <2>5, AddsStand
  <2> HIDE DEF t
  <2>7. QED  BY <2>1, <2>4, <2>6, TallerYet
<1> HIDE DEF n, base, Step
<1>5. \E g : Eq(g)
  <2> DEFINE Upto(m) == \E g : g = [k \in 0 .. m |-> IF k = 0 THEN base ELSE Step(g[k - 1], k)]
             R == {m \in 0 .. n : Upto(m)}
  <2>1. 0 \in R
    <3> DEFINE g == [k \in 0 .. 0 |-> base]
    <3>1. g = [k \in 0 .. 0 |-> IF k = 0 THEN base ELSE Step(g[k - 1], k)]
      OBVIOUS
    <3>2. Upto(0)
      <4> HIDE DEF g
      <4> QED  BY <3>1
    <3>3. QED
      <4> HIDE DEF Upto
      <4> QED  BY <1>2, <3>2
  <2>2. ASSUME NEW m \in 1 .. n, m - 1 \in R PROVE m \in R
    <3>1. PICK g : g = [k \in 0 .. m - 1 |-> IF k = 0 THEN base ELSE Step(g[k - 1], k)]
      BY <2>2
    <3> DEFINE h == [k \in 0 .. m |-> IF k = m THEN Step(g[m - 1], m) ELSE g[k]]
    <3>2. \A k \in 0 .. m - 1 : h[k] = g[k] /\ g[k] = IF k = 0 THEN base ELSE Step(g[k - 1], k)
      <4>1. m \in Nat
        BY <1>2
      <4>2. ASSUME NEW k \in 0 .. m - 1 PROVE h[k] = g[k]
        BY <4>1
      <4>3. ASSUME NEW k \in 0 .. m - 1
            PROVE  g[k] = IF k = 0 THEN base ELSE Step(g[k - 1], k)
        <5> HIDE DEF h
        <5> QED  BY <3>1
      <4>4. QED
        <5> HIDE DEF h
        <5> QED  BY <4>2, <4>3
    <3>3. h[m] = Step(h[m - 1], m)
      BY <1>2
    <3>4. ASSUME NEW k \in 0 .. m PROVE h[k] = IF k = 0 THEN base ELSE Step(h[k - 1], k)
      <4>1. CASE k = m
        BY <1>2, <3>3, <4>1
      <4>2. CASE k \in 0 .. m - 1 /\ k # 0
        <5>1. k - 1 \in 0 .. m - 1
          BY <1>2, <4>2
        <5> HIDE DEF h
        <5>2. QED  BY <3>2, <4>2, <5>1
      <4>3. CASE k \in 0 .. m - 1 /\ k = 0
        BY <3>2, <4>3
      <4>4. QED  BY <1>2, <4>1, <4>2, <4>3
    <3>5. h = [k \in 0 .. m |-> h[k]]
      OBVIOUS
    <3>6. Upto(m)
      <4> HIDE DEF h
      <4>1. h = [k \in 0 .. m |-> IF k = 0 THEN base ELSE Step(h[k - 1], k)]
        BY <3>4, <3>5
      <4>2. QED  BY <4>1
    <3>7. QED
      <4> HIDE DEF Upto
      <4> QED  BY <1>2, <3>6
  <2>3. 0 .. n \subseteq R
    <3> HIDE DEF R
    <3> QED  BY <1>2, <2>1, <2>2, IntervalInduction
  <2>4. Upto(n)
    <3> HIDE DEF Upto
    <3> QED  BY <1>2, <2>3
  <2>5. QED  BY <2>4
<1>6. Eq(add)
  <2> HIDE DEF Eq
  <2> QED  BY <1>5
<1>7. add[0] = base /\ \A k \in 1 .. n : add[k] = Step(add[k - 1], k)
  <2> HIDE DEF add
  <2> QED  BY <1>2, <1>6
<1> HIDE DEF add
<1>8. Taller(base, add[n])
  <2> DEFINE R == {k \in 0 .. n : Taller(base, add[k])}
  <2>1. 0 \in R
    BY <1>2, <1>3, <1>7, TallerYet DEF Taller
  <2>2. ASSUME NEW k \in 1 .. n, k - 1 \in R PROVE k \in R
    BY <1>4, <1>7, <2>2, TallerYet
  <2>3. 0 .. n \subseteq R
    <3> HIDE DEF R
    <3> QED  BY <1>2, <2>1, <2>2, IntervalInduction
  <2>4. QED  BY <1>2, <2>3
<1>9. Taller(b.tree, add[n])
  BY <1>3, <1>8, TallerYet
<1>10. QED  BY <1>1, <1>2, <1>9 DEF Grown, IsBuilt, Taller

\* build_nip34_tree: of all repositories.
LEMMA ReposGrow ==
  ASSUME NEW b, IsBuilt(b), NEW pk, NEW repoEvents, IsList(repoEvents),
         NEW events, IsList(events), NEW clone
  PROVE  Grown(b, AddNip34(b, pk, repoEvents, events, clone))
<1> DEFINE repos == ReposOf(pk, repoEvents)
           git == AddDirectory(b.tree, Root, "git")
           mine == GetOrCreateDir(git, Len(git), pk)
           n == Len(repos)
           base == [b EXCEPT !.tree = mine.tree]
           Step(v, k) == AddRepo(v, mine.ino, repos[k], events, clone)
           Eq(f) == f = [k \in 0 .. n |-> IF k = 0 THEN base ELSE Step(f[k - 1], k)]
           add == CHOOSE f : Eq(f)
<1>1. AddNip34(b, pk, repoEvents, events, clone) = IF repos = <<>> THEN b ELSE add[n]
  BY DEF AddNip34
<1>2. n \in Nat
  <2> DEFINE parsed == [k \in DOMAIN repoEvents |-> ParseRepo(pk, repoEvents[k])]
  <2>1. parsed = [k \in DOMAIN repoEvents |-> parsed[k]]
    OBVIOUS
  <2>2. repos = Only(parsed, {r \in Range(parsed) : r.id # Absent})
    BY DEF ReposOf
  <2> HIDE DEF parsed
  <2>3. QED  BY <2>1, <2>2, MappedLength, ListLength
<1>3. Grown(b, base) /\ IsBuilt(base) /\ mine.ino \in 2 .. Len(base.tree)
  <2>1. Standing(b.tree) /\ Len(b.tree) \in Nat /\ Len(b.tree) >= 1
    BY TallerYet DEF IsBuilt
  <2>2. Taller(b.tree, git) /\ Len(git) = Len(b.tree) + 1
    BY <2>1, RootAdds DEF Generated
  <2> HIDE DEF git
  <2>3. Standing(git) /\ Len(git) \in 2 .. Len(git)
    BY <2>1, <2>2 DEF Taller
  <2>4. Taller(git, mine.tree) /\ mine.ino \in 2 .. Len(mine.tree)
    BY <2>3, GotDir
  <2> HIDE DEF mine
  <2>5. Taller(b.tree, mine.tree)
    BY <2>2, <2>4, TallerYet
  <2>6. Grown(b, base) /\ base.tree = mine.tree
    BY <2>5, OneMore
  <2>7. QED  BY <2>4, <2>6 DEF Grown
<1>4. ASSUME NEW k \in 1 .. n, NEW v, Grown(base, v)
      PROVE  Grown(v, Step(v, k))
  <2> HIDE DEF base, mine, repos
  <2>1. IsBuilt(v) /\ mine.ino \in 2 .. Len(v.tree)
    BY <1>3, <1>4 DEF Grown, Taller
  <2>2. QED  BY <2>1, RepoGrows
<1> HIDE DEF n, base, Step
<1>5. \E g : Eq(g)
  <2> DEFINE Upto(m) == \E g : g = [k \in 0 .. m |-> IF k = 0 THEN base ELSE Step(g[k - 1], k)]
             R == {m \in 0 .. n : Upto(m)}
  <2>1. 0 \in R
    <3> DEFINE g == [k \in 0 .. 0 |-> base]
    <3>1. g = [k \in 0 .. 0 |-> IF k = 0 THEN base ELSE Step(g[k - 1], k)]
      OBVIOUS
    <3>2. Upto(0)
      <4> HIDE DEF g
      <4> QED  BY <3>1
    <3>3. QED
      <4> HIDE DEF Upto
      <4> QED  BY <1>2, <3>2
  <2>2. ASSUME NEW m \in 1 .. n, m - 1 \in R PROVE m \in R
    <3>1. PICK g : g = [k \in 0 .. m - 1 |-> IF k = 0 THEN base ELSE Step(g[k - 1], k)]
      BY <2>2
    <3> DEFINE h == [k \in 0 .. m |-> IF k = m THEN Step(g[m - 1], m) ELSE g[k]]
    <3>2. \A k \in 0 .. m - 1 : h[k] = g[k] /\ g[k] = IF k = 0 THEN base ELSE Step(g[k - 1], k)
      <4>1. m \in Nat
        BY <1>2
      <4>2. ASSUME NEW k \in 0 .. m - 1 PROVE h[k] = g[k]
        BY <4>1
      <4>3. ASSUME NEW k \in 0 .. m - 1
            PROVE  g[k] = IF k = 0 THEN base ELSE Step(g[k - 1], k)
        <5> HIDE DEF h
        <5> QED  BY <3>1
      <4>4. QED
        <5> HIDE DEF h
        <5> QED  BY <4>2, <4>3
    <3>3. h[m] = Step(h[m - 1], m)
      BY <1>2
    <3>4. ASSUME NEW k \in 0 .. m PROVE h[k] = IF k = 0 THEN base ELSE Step(h[k - 1], k)
      <4>1. CASE k = m
        BY <1>2, <3>3, <4>1
      <4>2. CASE k \in 0 .. m - 1 /\ k # 0
        <5>1. k - 1 \in 0 .. m - 1
          BY <1>2, <4>2
        <5> HIDE DEF h
        <5>2. QED  BY <3>2, <4>2, <5>1
      <4>3. CASE k \in 0 .. m - 1 /\ k = 0
        BY <3>2, <4>3
      <4>4. QED  BY <1>2, <4>1, <4>2, <4>3
    <3>5. h = [k \in 0 .. m |-> h[k]]
      OBVIOUS
    <3>6. Upto(m)
      <4> HIDE DEF h
      <4>1. h = [k \in 0 .. m |-> IF k = 0 THEN base ELSE Step(h[k - 1], k)]
        BY <3>4, <3>5
      <4>2. QED  BY <4>1
    <3>7. QED
      <4> HIDE DEF Upto
      <4> QED  BY <1>2, <3>6
  <2>3. 0 .. n \subseteq R
    <3> HIDE DEF R
    <3> QED  BY <1>2, <2>1, <2>2, IntervalInduction
  <2>4. Upto(n)
    <3> HIDE DEF Upto
    <3> QED  BY <1>2, <2>3
  <2>5. QED  BY <2>4
<1>6. Eq(add)
  <2> HIDE DEF Eq
  <2> QED  BY <1>5
<1>7. add[0] = base /\ \A k \in 1 .. n : add[k] = Step(add[k - 1], k)
  <2> HIDE DEF add
  <2> QED  BY <1>2, <1>6
<1> HIDE DEF add
<1>8. Grown(base, add[n])
  <2> DEFINE R == {k \in 0 .. n : Grown(base, add[k])}
  <2>1. 0 \in R
    BY <1>2, <1>3, <1>7, GrownYet
  <2>2. ASSUME NEW k \in 1 .. n, k - 1 \in R PROVE k \in R
    BY <1>3, <1>4, <1>7, <2>2, GrownYet
  <2>3. 0 .. n \subseteq R
    <3> HIDE DEF R
    <3> QED  BY <1>2, <2>1, <2>2, IntervalInduction
  <2>4. QED  BY <1>2, <2>3
<1>9. Grown(b, b) /\ Grown(b, add[n])
  BY <1>3, <1>8, GrownYet
<1>10. QED  BY <1>1, <1>9


\* A list that is all validated is left whole.
LEMMA WholeIsKept ==
  ASSUME NEW s, IsList(s), NEW S, Range(s) \subseteq S
  PROVE  Len(Only(s, S)) = Len(s)
<1> DEFINE T == Range(s)
           n == Len(s)
<1>1. s \in Seq(T)
  BY DEF IsList
<1>2. n \in Nat /\ \A k \in 1 .. n : s[k] \in S
  BY <1>1 DEF Range
<1> HIDE DEF T
<1>3. PICK only : Left(s, S, T, only) /\ Only(s, S) = only[n]
  BY <1>1, OnlyIs
<1> HIDE DEF n
<1> DEFINE R == {k \in 0 .. n : Len(only[k]) = k}
<1>4. 0 \in R
  BY <1>2, <1>3 DEF Left
<1>5. ASSUME NEW k \in 1 .. n, k - 1 \in R PROVE k \in R
  <2>1. only[k] = Append(only[k - 1], s[k]) /\ only[k - 1] \in Seq(T)
    BY <1>2, <1>3, <1>5 DEF Left, n
  <2>2. Len(only[k]) = Len(only[k - 1]) + 1
    BY <2>1
  <2>3. QED  BY <1>2, <1>5, <2>2
<1>6. 0 .. n \subseteq R
  <2> HIDE DEF R
  <2> QED  BY <1>2, <1>4, <1>5, IntervalInduction
<1>7. QED  BY <1>2, <1>3, <1>6 DEF n

\* A listing without a blob that is refused is counted whole.
Heeded(a, w) == a.ok /\ (\A x \in Range(a.is) : Validates(x)) => Len(a.is) <= w.count


\* What a server answers: blobs it describes.
Described(a) == IsList(a.is) /\ Range(a.is) \subseteq DOMAIN Desc

\* The listings of one public key: each server's is counted.
LEMMA ListingsGrow ==
  ASSUME NEW b, IsBuilt(b), NEW pk, NEW U, NEW urls \in Seq(U), NEW answer,
         \A u \in U : Described(answer[u])
  PROVE  LET all == AddListings(b, pk, urls, answer)
         IN  Grown(b, all) /\ \A u \in Range(urls) : Heeded(answer[u], all)
<1> DEFINE home == Len(b.tree) + 1
           one == AddDirectory(b.tree, Public(b.tree), pk)
           dirs == AddDirectory(one, home, "servers")
           host == home + 1
           got(k) == Validated(answer[urls[k]].is)
           With(v, k) == [v EXCEPT !.tree = AddDirectory(@, host, HostDir[urls[k]])]
           listed == FlattenSeq([k \in DOMAIN urls |-> got(k)])
           Told(k, w) == Heeded(answer[urls[k]], w)
           n == Len(urls)
           base == [tree |-> dirs, count |-> b.count]
           Step(v, k) == IF answer[urls[k]].ok
                         THEN AddBlobs(With(v, k), Len(With(v, k).tree), got(k)) ELSE With(v, k)
           Eq(f) == f = [k \in 0 .. n |-> IF k = 0 THEN base ELSE Step(f[k - 1], k)]
           add == CHOOSE f : Eq(f)
           kept == Only(listed, {d \in Range(listed) : Desc[d].valid})
<1>1. AddListings(b, pk, urls, answer)
        = IF listed = <<>> THEN add[n]
          ELSE [add[n] EXCEPT !.tree =
                  BuildBySha256Only(AddDirectory(@, home, "all-servers"), Len(@) + 1, kept)]
  BY DEF AddListings
<1>2. n \in Nat /\ DOMAIN urls = 1 .. n /\ \A k \in 1 .. n : urls[k] \in U
  OBVIOUS
<1>21. \A k \in 1 .. n : /\ IsList(got(k)) /\ Range(got(k)) \subseteq DOMAIN Desc
                        /\ Len(got(k)) \in Nat /\ Described(answer[urls[k]])
  <2> SUFFICES ASSUME NEW k \in 1 .. n
               PROVE  /\ IsList(got(k)) /\ Range(got(k)) \subseteq DOMAIN Desc
                      /\ Len(got(k)) \in Nat /\ Described(answer[urls[k]])
    OBVIOUS
  <2> DEFINE a == answer[urls[k]]
             S == {d \in Range(a.is) : Validates(d)}
  <2>1. Described(a)
    BY <1>2
  <2>2. got(k) = Only(a.is, S)
    BY DEF Validated
  <2> HIDE DEF S, got, a
  <2>3. IsList(got(k)) /\ Range(got(k)) \subseteq DOMAIN Desc /\ Len(got(k)) \in Nat
    BY <2>1, <2>2, OnlyIsList DEF Described
  <2>4. QED  BY <2>1, <2>3 DEF a
<1>3. Grown(b, base) /\ IsBuilt(base) /\ Len(base.tree) = host /\ home \in Nat /\ home >= 2
  <2>1. /\ Standing(b.tree) /\ Len(b.tree) \in Nat /\ Len(b.tree) >= 1
        /\ Public(b.tree) \in 0 .. Len(b.tree) /\ Public(b.tree) # Root
    BY PublicIs DEF IsBuilt
  <2>2. Taller(b.tree, one) /\ Len(one) = Len(b.tree) + 1
    BY <2>1, AddsStand
  <2> HIDE DEF one
  <2>3. Standing(one) /\ home \in 0 .. Len(one) /\ home # Root
    BY <2>1, <2>2 DEF Taller, Root
  <2>4. Taller(one, dirs) /\ Len(dirs) = Len(one) + 1
    BY <2>3, AddsStand
  <2> HIDE DEF dirs
  <2>5. Taller(b.tree, dirs)
    BY <2>2, <2>4, TallerYet
  <2>6. QED  BY <2>1, <2>2, <2>4, <2>5 DEF Grown, IsBuilt, Taller
<1>4. ASSUME NEW k \in 1 .. n, NEW v, Grown(base, v)
      PROVE  Grown(v, Step(v, k)) /\ Told(k, Step(v, k))
  <2> DEFINE a == answer[urls[k]]
             name == HostDir[urls[k]]
             t == AddDirectory(v.tree, host, name)
             w == [v EXCEPT !.tree = t]
             x == AddBlobs(w, Len(w.tree), got(k))
  <2>1. Described(a) /\ Len(got(k)) \in Nat
    BY <1>21
  <2>2. IsBuilt(v)
    BY <1>4 DEF Grown
  <2>7. Step(v, k) = IF a.ok THEN x ELSE w
    OBVIOUS
  <2>31. Taller(v.tree, t) /\ Len(t) \in 0 .. Len(t) /\ Len(t) # Root
    <3> HIDE DEF name, base
    <3>1. Standing(v.tree) /\ host \in 0 .. Len(v.tree) /\ host # Root
      BY <1>3, <1>4 DEF Grown, Taller, Root
    <3> HIDE DEF host
    <3>2. Taller(v.tree, t) /\ Len(t) = Len(v.tree) + 1
      BY <3>1, AddsStand
    <3>3. Len(v.tree) \in Nat /\ Len(v.tree) >= 1
      BY <3>1, TallerYet
    <3>4. QED  BY <3>2, <3>3 DEF Root
  <2> HIDE DEF t
  <2>32. w.tree = t
    BY <2>2, <2>31, OneMore
  <2>4. Grown(v, x) /\ x.count = v.count + Len(got(k))
    <3>1. IsList(got(k)) /\ Range(got(k)) \subseteq DOMAIN Desc
      BY <1>21
    <3> HIDE DEF got
    <3>2. x = AddBlobs([v EXCEPT !.tree = t], Len(t), got(k))
      BY <2>32
    <3> HIDE DEF x
    <3>3. QED  BY <2>2, <2>31, <3>1, <3>2, BlobsGrow
  <2>5. Grown(v, w)
    BY <2>2, <2>31, OneMore
  <2>6. (\A y \in Range(a.is) : Validates(y)) => Len(got(k)) = Len(a.is)
    <3> DEFINE S == {d \in Range(a.is) : Validates(d)}
    <3> SUFFICES ASSUME \A y \in Range(a.is) : Validates(y) PROVE Len(got(k)) = Len(a.is)
      OBVIOUS
    <3>1. got(k) = Only(a.is, S)
      BY DEF Validated
    <3>2. Range(a.is) \subseteq S
      OBVIOUS
    <3> HIDE DEF S, a, got
    <3>3. IsList(a.is)
      BY <2>1 DEF Described
    <3>4. Len(Only(a.is, S)) = Len(a.is)
      BY <3>2, <3>3, WholeIsKept
    <3>5. QED  BY <3>1, <3>4
  <2>71. Len(a.is) \in Nat
    <3> HIDE DEF a
    <3> QED  BY <2>1, ListLength DEF Described
  <2> HIDE DEF a, x, w, got, Step, With
  <2>8. Heeded(a, Step(v, k))
    BY <2>2, <2>4, <2>6, <2>7, <2>71 DEF Heeded, IsBuilt
  <2>9. QED  BY <2>4, <2>5, <2>7, <2>8 DEF a
<1>41. \A i \in 1 .. n : \A v, w : Told(i, v) /\ Grown(v, v) /\ Grown(v, w) => Told(i, w)
  <2> SUFFICES ASSUME NEW i \in 1 .. n, NEW v, NEW w, Told(i, v), Grown(v, v), Grown(v, w)
               PROVE  Told(i, w)
    OBVIOUS
  <2>1. Len(answer[urls[i]].is) \in Nat
    BY <1>21, ListLength DEF Described
  <2>2. QED  BY <2>1 DEF Grown, IsBuilt, Heeded
<1>42. listed \in Seq(DOMAIN Desc)
  <2> DEFINE T == DOMAIN Desc
             each == [k \in DOMAIN urls |-> got(k)]
  <2>1. \A k \in 1 .. n : got(k) \in Seq(T)
    <3> SUFFICES ASSUME NEW k \in 1 .. n PROVE got(k) \in Seq(T)
      OBVIOUS
    <3> DEFINE g == got(k)
    <3>1. g \in Seq(Range(g)) /\ Range(g) \subseteq T
      BY <1>21 DEF IsList
    <3> HIDE DEF g, T
    <3>2. g \in Seq(T)
      BY <3>1
    <3>3. QED  BY <3>2 DEF g
  <2> HIDE DEF T, got
  <2>2. each \in Seq(Seq(T))
    BY <1>2, <2>1
  <2> HIDE DEF each
  <2>3. FlattenSeq(each) \in Seq(T)
    BY <2>2, FlatType
  <2>4. QED  BY <2>3 DEF each, T
<1> HIDE DEF n, base, Step, Told, listed
<1>5. \E g : Eq(g)
  <2> DEFINE Upto(m) == \E g : g = [k \in 0 .. m |-> IF k = 0 THEN base ELSE Step(g[k - 1], k)]
             R == {m \in 0 .. n : Upto(m)}
  <2>1. 0 \in R
    <3> DEFINE g == [k \in 0 .. 0 |-> base]
    <3>1. g = [k \in 0 .. 0 |-> IF k = 0 THEN base ELSE Step(g[k - 1], k)]
      OBVIOUS
    <3>2. Upto(0)
      <4> HIDE DEF g
      <4> QED  BY <3>1
    <3>3. QED
      <4> HIDE DEF Upto
      <4> QED  BY <1>2, <3>2
  <2>2. ASSUME NEW m \in 1 .. n, m - 1 \in R PROVE m \in R
    <3>1. PICK g : g = [k \in 0 .. m - 1 |-> IF k = 0 THEN base ELSE Step(g[k - 1], k)]
      BY <2>2
    <3> DEFINE h == [k \in 0 .. m |-> IF k = m THEN Step(g[m - 1], m) ELSE g[k]]
    <3>2. \A k \in 0 .. m - 1 : h[k] = g[k] /\ g[k] = IF k = 0 THEN base ELSE Step(g[k - 1], k)
      <4>1. m \in Nat
        BY <1>2
      <4>2. ASSUME NEW k \in 0 .. m - 1 PROVE h[k] = g[k]
        BY <4>1
      <4>3. ASSUME NEW k \in 0 .. m - 1
            PROVE  g[k] = IF k = 0 THEN base ELSE Step(g[k - 1], k)
        <5> HIDE DEF h
        <5> QED  BY <3>1
      <4>4. QED
        <5> HIDE DEF h
        <5> QED  BY <4>2, <4>3
    <3>3. h[m] = Step(h[m - 1], m)
      BY <1>2
    <3>4. ASSUME NEW k \in 0 .. m PROVE h[k] = IF k = 0 THEN base ELSE Step(h[k - 1], k)
      <4>1. CASE k = m
        BY <1>2, <3>3, <4>1
      <4>2. CASE k \in 0 .. m - 1 /\ k # 0
        <5>1. k - 1 \in 0 .. m - 1
          BY <1>2, <4>2
        <5> HIDE DEF h
        <5>2. QED  BY <3>2, <4>2, <5>1
      <4>3. CASE k \in 0 .. m - 1 /\ k = 0
        BY <3>2, <4>3
      <4>4. QED  BY <1>2, <4>1, <4>2, <4>3
    <3>5. h = [k \in 0 .. m |-> h[k]]
      OBVIOUS
    <3>6. Upto(m)
      <4> HIDE DEF h
      <4>1. h = [k \in 0 .. m |-> IF k = 0 THEN base ELSE Step(h[k - 1], k)]
        BY <3>4, <3>5
      <4>2. QED  BY <4>1
    <3>7. QED
      <4> HIDE DEF Upto
      <4> QED  BY <1>2, <3>6
  <2>3. 0 .. n \subseteq R
    <3> HIDE DEF R
    <3> QED  BY <1>2, <2>1, <2>2, IntervalInduction
  <2>4. Upto(n)
    <3> HIDE DEF Upto
    <3> QED  BY <1>2, <2>3
  <2>5. QED  BY <2>4
<1>6. Eq(add)
  <2> HIDE DEF Eq
  <2> QED  BY <1>5
<1>7. add[0] = base /\ \A k \in 1 .. n : add[k] = Step(add[k - 1], k)
  <2> HIDE DEF add
  <2> QED  BY <1>2, <1>6
<1> HIDE DEF add
<1>8. Grown(base, add[n]) /\ \A i \in 1 .. n : Told(i, add[n])
  <2> DEFINE R == {k \in 0 .. n : Grown(base, add[k]) /\ \A i \in 1 .. k : Told(i, add[k])}
  <2>1. 0 \in R
    BY <1>2, <1>3, <1>7, GrownYet
  <2>2. ASSUME NEW k \in 1 .. n, k - 1 \in R PROVE k \in R
    <3>1. /\ Grown(base, add[k - 1]) /\ Grown(add[k - 1], add[k - 1])
          /\ \A i \in 1 .. k - 1 : Told(i, add[k - 1])
      BY <2>2, GrownYet DEF Grown
    <3>2. Grown(add[k - 1], add[k]) /\ Told(k, add[k])
      BY <1>4, <1>7, <3>1
    <3>3. Grown(base, add[k])
      BY <1>3, <3>1, <3>2, GrownYet
    <3>4. \A i \in 1 .. k - 1 : Told(i, add[k])
      <4>1. 1 .. k - 1 \subseteq 1 .. n
        BY <1>2
      <4>2. QED  BY <1>41, <3>1, <3>2, <4>1
    <3>5. \A i \in 1 .. k : i = k \/ i \in 1 .. k - 1
      BY <1>2
    <3>6. QED  BY <1>2, <3>2, <3>3, <3>4, <3>5
  <2>3. 0 .. n \subseteq R
    <3> HIDE DEF R
    <3> QED  BY <1>2, <2>1, <2>2, IntervalInduction
  <2>4. QED  BY <1>2, <2>3
<1>9. Grown(b, add[n])
  BY <1>3, <1>8, GrownYet
<1> DEFINE v == add[n]
           u == AddDirectory(v.tree, home, "all-servers")
           t == BuildBySha256Only(u, Len(v.tree) + 1, kept)
<1>10. IsBuilt(v) /\ Taller(v.tree, t)
  <2> HIDE DEF v
  <2>1. IsBuilt(v) /\ Standing(v.tree) /\ home \in 0 .. Len(v.tree) /\ home # Root
        /\ Len(v.tree) \in Nat /\ Len(v.tree) >= 1
    <3>1. IsBuilt(v) /\ Len(v.tree) >= host /\ Len(v.tree) \in Nat
      BY <1>3, <1>8 DEF v, Grown, Taller
    <3>2. QED  BY <1>3, <3>1 DEF IsBuilt, Root
  <2> HIDE DEF home
  <2>2. Taller(v.tree, u) /\ Len(u) = Len(v.tree) + 1
    BY <2>1, AddsStand
  <2> HIDE DEF u
  <2>3. IsList(listed)
    BY <1>42, ListOf
  <2>4. IsList(kept)
    BY <2>3, OnlyIsList
  <2> HIDE DEF kept
  <2>5. Standing(u) /\ Len(v.tree) + 1 \in 0 .. Len(u) /\ Len(v.tree) + 1 # Root
    BY <2>1, <2>2 DEF Taller, Root
  <2>6. Taller(u, t)
    BY <2>4, <2>5, ShasStand
  <2>7. QED  BY <2>1, <2>2, <2>6, TallerYet
<1> DEFINE all == AddListings(b, pk, urls, answer)
<1>11. all.count = v.count /\ Grown(b, all)
  <2>1. all = v \/ all = [v EXCEPT !.tree = t]
    BY <1>1
  <2> HIDE DEF all, t, v
  <2>2. Grown(v, [v EXCEPT !.tree = t]) /\ [v EXCEPT !.tree = t].count = v.count
    BY <1>10, OneMore
  <2>3. Grown(b, v)
    BY <1>9 DEF v
  <2>4. QED  BY <2>1, <2>2, <2>3, GrownYet
<1> HIDE DEF all
<1>12. ASSUME NEW x \in Range(urls) PROVE Heeded(answer[x], all)
  <2>1. PICK k \in 1 .. n : x = urls[k]
    BY DEF Range, n
  <2>2. Heeded(answer[x], add[n])
    BY <1>8, <2>1 DEF Told
  <2>3. QED  BY <1>11, <2>2 DEF Heeded
<1>13. QED  BY <1>11, <1>12 DEF all

\* The listings of all public keys.
LEMMA ServersGrow ==
  ASSUME NEW b, IsBuilt(b), NEW pks, IsList(Pubkeys(pks)), NEW U, NEW urls \in Seq(U),
         NEW answers, \A pk \in Range(Pubkeys(pks)) : \A u \in U : Described(answers[pk][u])
  PROVE  LET all == AddServers(b, pks, urls, answers)
         IN  /\ Grown(b, all)
             /\ \A pk \in Range(Pubkeys(pks)), u \in Range(urls) : Heeded(answers[pk][u], all)
<1> DEFINE named == Pubkeys(pks)
           Told(k, w) == \A u \in Range(urls) : Heeded(answers[named[k]][u], w)
           n == Len(named)
           base == b
           Step(v, k) == AddListings(v, named[k], urls, answers[named[k]])
           Eq(f) == f = [k \in 0 .. n |-> IF k = 0 THEN base ELSE Step(f[k - 1], k)]
           add == CHOOSE f : Eq(f)
<1>1. AddServers(b, pks, urls, answers) = add[n]
  BY DEF AddServers
<1>2. n \in Nat /\ DOMAIN named = 1 .. n
  BY ListLength
<1>3. Grown(b, base)
  BY GrownYet
<1>4. ASSUME NEW k \in 1 .. n, NEW v, Grown(b, v)
      PROVE  Grown(v, Step(v, k)) /\ Told(k, Step(v, k))
  <2> DEFINE pk == named[k]
             answer == answers[pk]
  <2>1. \A u \in U : Described(answer[u])
    BY <1>2 DEF Range
  <2>2. IsBuilt(v)
    BY <1>4 DEF Grown
  <2> HIDE DEF pk, answer
  <2>3. Grown(v, AddListings(v, pk, urls, answer))
        /\ \A u \in Range(urls) : Heeded(answer[u], AddListings(v, pk, urls, answer))
    BY <2>1, <2>2, ListingsGrow
  <2>4. QED  BY <2>3 DEF pk, answer
<1>41. \A i \in 1 .. n : \A v, w : Told(i, v) /\ Grown(v, v) /\ Grown(v, w) => Told(i, w)
  <2> SUFFICES ASSUME NEW i \in 1 .. n, NEW v, NEW w, Told(i, v), Grown(v, v), Grown(v, w),
                      NEW u \in Range(urls)
               PROVE  Heeded(answers[named[i]][u], w)
    OBVIOUS
  <2>1. u \in U /\ named[i] \in Range(named)
    BY <1>2 DEF Range
  <2> HIDE DEF named
  <2>2. IsList(answers[named[i]][u].is)
    BY <2>1 DEF Described, named
  <2>3. Len(answers[named[i]][u].is) \in Nat
    BY <2>2, ListLength
  <2>4. QED  BY <2>3 DEF Grown, IsBuilt, Heeded
<1> HIDE DEF n, base, Step, Told
<1>5. \E g : Eq(g)
  <2> DEFINE Upto(m) == \E g : g = [k \in 0 .. m |-> IF k = 0 THEN base ELSE Step(g[k - 1], k)]
             R == {m \in 0 .. n : Upto(m)}
  <2>1. 0 \in R
    <3> DEFINE g == [k \in 0 .. 0 |-> base]
    <3>1. g = [k \in 0 .. 0 |-> IF k = 0 THEN base ELSE Step(g[k - 1], k)]
      OBVIOUS
    <3>2. Upto(0)
      <4> HIDE DEF g
      <4> QED  BY <3>1
    <3>3. QED
      <4> HIDE DEF Upto
      <4> QED  BY <1>2, <3>2
  <2>2. ASSUME NEW m \in 1 .. n, m - 1 \in R PROVE m \in R
    <3>1. PICK g : g = [k \in 0 .. m - 1 |-> IF k = 0 THEN base ELSE Step(g[k - 1], k)]
      BY <2>2
    <3> DEFINE h == [k \in 0 .. m |-> IF k = m THEN Step(g[m - 1], m) ELSE g[k]]
    <3>2. \A k \in 0 .. m - 1 : h[k] = g[k] /\ g[k] = IF k = 0 THEN base ELSE Step(g[k - 1], k)
      <4>1. m \in Nat
        BY <1>2
      <4>2. ASSUME NEW k \in 0 .. m - 1 PROVE h[k] = g[k]
        BY <4>1
      <4>3. ASSUME NEW k \in 0 .. m - 1
            PROVE  g[k] = IF k = 0 THEN base ELSE Step(g[k - 1], k)
        <5> HIDE DEF h
        <5> QED  BY <3>1
      <4>4. QED
        <5> HIDE DEF h
        <5> QED  BY <4>2, <4>3
    <3>3. h[m] = Step(h[m - 1], m)
      BY <1>2
    <3>4. ASSUME NEW k \in 0 .. m PROVE h[k] = IF k = 0 THEN base ELSE Step(h[k - 1], k)
      <4>1. CASE k = m
        BY <1>2, <3>3, <4>1
      <4>2. CASE k \in 0 .. m - 1 /\ k # 0
        <5>1. k - 1 \in 0 .. m - 1
          BY <1>2, <4>2
        <5> HIDE DEF h
        <5>2. QED  BY <3>2, <4>2, <5>1
      <4>3. CASE k \in 0 .. m - 1 /\ k = 0
        BY <3>2, <4>3
      <4>4. QED  BY <1>2, <4>1, <4>2, <4>3
    <3>5. h = [k \in 0 .. m |-> h[k]]
      OBVIOUS
    <3>6. Upto(m)
      <4> HIDE DEF h
      <4>1. h = [k \in 0 .. m |-> IF k = 0 THEN base ELSE Step(h[k - 1], k)]
        BY <3>4, <3>5
      <4>2. QED  BY <4>1
    <3>7. QED
      <4> HIDE DEF Upto
      <4> QED  BY <1>2, <3>6
  <2>3. 0 .. n \subseteq R
    <3> HIDE DEF R
    <3> QED  BY <1>2, <2>1, <2>2, IntervalInduction
  <2>4. Upto(n)
    <3> HIDE DEF Upto
    <3> QED  BY <1>2, <2>3
  <2>5. QED  BY <2>4
<1>6. Eq(add)
  <2> HIDE DEF Eq
  <2> QED  BY <1>5
<1>7. add[0] = base /\ \A k \in 1 .. n : add[k] = Step(add[k - 1], k)
  <2> HIDE DEF add
  <2> QED  BY <1>2, <1>6
<1> HIDE DEF add
<1>8. Grown(b, add[n]) /\ \A i \in 1 .. n : Told(i, add[n])
  <2> DEFINE R == {k \in 0 .. n : Grown(b, add[k]) /\ \A i \in 1 .. k : Told(i, add[k])}
  <2>1. 0 \in R
    BY <1>2, <1>3, <1>7
  <2>2. ASSUME NEW k \in 1 .. n, k - 1 \in R PROVE k \in R
    <3>1. /\ Grown(b, add[k - 1]) /\ Grown(add[k - 1], add[k - 1])
          /\ \A i \in 1 .. k - 1 : Told(i, add[k - 1])
      BY <2>2, GrownYet DEF Grown
    <3>2. Grown(add[k - 1], add[k]) /\ Told(k, add[k])
      BY <1>4, <1>7, <3>1
    <3>3. Grown(b, add[k])
      BY <3>1, <3>2, GrownYet
    <3>4. \A i \in 1 .. k - 1 : Told(i, add[k])
      <4>1. 1 .. k - 1 \subseteq 1 .. n
        BY <1>2
      <4>2. QED  BY <1>41, <3>1, <3>2, <4>1
    <3>5. \A i \in 1 .. k : i = k \/ i \in 1 .. k - 1
      BY <1>2
    <3>6. QED  BY <1>2, <3>2, <3>3, <3>4, <3>5
  <2>3. 0 .. n \subseteq R
    <3> HIDE DEF R
    <3> QED  BY <1>2, <2>1, <2>2, IntervalInduction
  <2>4. QED  BY <1>2, <2>3
<1>10. ASSUME NEW pk \in Range(named), NEW u \in Range(urls)
       PROVE  Heeded(answers[pk][u], add[n])
  <2>1. PICK k \in 1 .. n : pk = named[k]
    BY <1>2 DEF Range
  <2>2. QED  BY <1>8, <2>1 DEF Told
<1>11. QED  BY <1>1, <1>8, <1>10
-----------------------------------------------------------------------------
(* What --persist brings back: which directories and files stand beside    *)
(* the generated directories, path by path and tag by tag.                 *)

-----------------------------------------------------------------------------
(* Paths: which of them are linked, and what stands beside the generated     *)
(* directories.                                                              *)

\* Where the parent and the children of a node are.
LEMMA KinIs ==
  ASSUME NEW t, Shaped(t), NEW i \in 1 .. Len(t)
  PROVE  /\ t[i].parent \in Nat /\ t[i].parent < i /\ t[i].parent \in 0 .. Len(t)
         /\ i # Root => i \in 2 .. Len(t)
         /\ t[i].children \in Seq(Nat)
         /\ \A c \in Range(t[i].children) : c \in i + 1 .. Len(t) /\ t[c].parent = i
<1>1. Len(t) \in Nat /\ t[i].parent \in 0 .. i - 1 /\ t[i].children \in Seq(Nat)
      /\ \A k \in 1 .. Len(t[i].children) :
            t[i].children[k] \in i + 1 .. Len(t) /\ t[t[i].children[k]].parent = i
  BY DEF Shaped
<1>2. DOMAIN t[i].children = 1 .. Len(t[i].children)
  BY <1>1
<1>3. \A c \in Range(t[i].children) : c \in i + 1 .. Len(t) /\ t[c].parent = i
  BY <1>1, <1>2 DEF Range
<1>4. QED  BY <1>1, <1>3 DEF Root

\* A list and one more element can be taken apart.
LEMMA SameLists ==
  ASSUME NEW s, IsList(s), NEW r, IsList(r), NEW m, NEW n, Append(s, m) = Append(r, n)
  PROVE  s = r /\ m = n
<1> DEFINE S == (Range(s) \union Range(r)) \union {m, n}
<1>1. s \in Seq(S) /\ r \in Seq(S) /\ m \in S /\ n \in S
  BY DEF IsList
<1> HIDE DEF S
<1>2. QED  BY <1>1, SameAppend

\* The path of a node is that of its parent and its name.
LEMMA PathIs ==
  ASSUME NEW t, Shaped(t)
  PROVE  /\ \A i \in 0 .. Len(t) : IsList(PathOf(t)[i])
         /\ \A i \in 0 .. Len(t) :
              PathOf(t)[i] = IF i <= Root THEN <<>>
                             ELSE Append(PathOf(t)[t[i].parent], t[i].name)
<1> DEFINE n == Len(t)
           D == 0 .. n
           N == {t[i].name : i \in 1 .. n}
           X == Seq(N)
           none == <<>>
           Body(g, i) == IF i <= Root THEN none ELSE Append(g[t[i].parent], t[i].name)
           G == [i \in D |-> [g \in [D -> X] |-> Body(g, i)]]
           Eq(f) == f = [i \in D |-> Body(f, i)]
           path == CHOOSE f : Eq(f)
           r == [i \in D |-> i]
<1>1. PathOf(t) = path
  BY DEF PathOf
<1>2. n \in Nat /\ none \in X /\ Root = 1
  BY ShapedIs DEF Root
<1>3. ASSUME NEW i \in D, ~(i <= Root)
      PROVE  t[i].parent \in D /\ t[i].name \in N /\ t[i].parent < i
  <2>1. i \in 1 .. n
    BY <1>2, <1>3
  <2>2. t[i].parent \in Nat /\ t[i].parent < i /\ t[i].name \in N
    BY <2>1, KinIs
  <2>3. QED  BY <1>2, <2>2
<1>4. ASSUME NEW i \in D, NEW g, i <= Root \/ g[t[i].parent] \in X
      PROVE  Body(g, i) \in X
  <2> HIDE DEF N
  <2>1. QED  BY <1>2, <1>3, <1>4
<1> HIDE DEF n, X, none
<1>5. G \in [D -> [[D -> X] -> X]]
  <2>1. \A i \in D : \A g \in [D -> X] : Body(g, i) \in X
    <3> HIDE DEF D, Body
    <3> QED BY <1>3, <1>4
  <2> HIDE DEF D, Body
  <2>2. QED  BY <2>1
<1>6. ASSUME NEW i \in D, NEW g \in [D -> X], NEW h \in [D -> X],
             \A j \in D : r[j] < r[i] => g[j] = h[j]
      PROVE  G[i][g] = G[i][h]
  <2>1. Body(g, i) = Body(h, i)
    <3>1. CASE i <= Root
      BY <3>1
    <3>2. CASE ~(i <= Root)
      <4>1. t[i].parent \in D /\ r[t[i].parent] < r[i]
        BY <1>3, <3>2
      <4>2. g[t[i].parent] = h[t[i].parent]
        BY <1>6, <4>1
      <4>3. QED  BY <3>2, <4>2
    <3>3. QED  BY <3>1, <3>2
  <2> HIDE DEF D, Body
  <2>2. QED  BY <2>1
<1>7. r \in [D -> 0 .. n]
  OBVIOUS
<1>8. PICK g : Recursive(D, X, G, g)
  <2>1. X # {}
    BY <1>2
  <2>2. Founded(D, X, G, r)
    <3> HIDE DEF G, D, r
    <3> QED BY <1>6, Zenon DEF Founded
  <2>3. n \in Nat
    BY <1>2
  <2> HIDE DEF G, D, r
  <2>4. QED  BY <1>5, <1>7, <2>1, <2>2, <2>3, Recursion
<1>9. Eq(g)
  <2> HIDE DEF D, Body
  <2> QED BY <1>8 DEF Recursive
<1>10. Eq(path)
  <2> HIDE DEF Eq
  <2> QED BY <1>9
<1>11. \A i \in D : path[i] = Body(path, i)
  <2> HIDE DEF path, D, Body
  <2> QED BY <1>10
<1>12. D \subseteq {i \in D : path[i] \in X}
  <2> DEFINE S == {i \in D : path[i] \in X}
  <2> HIDE DEF path
  <2>1. ASSUME NEW i \in D, \A j \in D : j < i => j \in S
        PROVE  i \in S
    <3>1. i <= Root \/ path[t[i].parent] \in X
      BY <1>3, <2>1
    <3>2. Body(path, i) \in X
      BY <1>4, <3>1
    <3>3. QED  BY <1>11, <3>2
  <2>2. D \in SUBSET Nat
    BY <1>2
  <2> HIDE DEF S, D
  <2>3. QED  BY <2>1, <2>2, StrongInduction DEF S
<1>13. \A i \in D : IsList(path[i])
  <2> HIDE DEF path, D, Body, N
  <2> QED BY <1>12, ListOf DEF X
<1>14. QED
  <2> HIDE DEF path
  <2> QED BY <1>1, <1>11, <1>13 DEF n, none

\* A node is linked when it is the root, or its parent is and lists it.
LEMMA LinkedIs ==
  ASSUME NEW t, Shaped(t)
  PROVE  /\ Linked(t) \subseteq 1 .. Len(t)
         /\ \A i \in 1 .. Len(t) :
              i \in Linked(t) <=>
                i = Root \/ (/\ t[i].parent \in Linked(t)
                             /\ i \in Range(t[t[i].parent].children))
<1> DEFINE n == Len(t)
           D == 1 .. n
           X == BOOLEAN
           Body(g, i) == i = Root \/ LET q == t[i].parent IN
                           q # 0 /\ g[q] /\ i \in Range(t[q].children)
           G == [i \in D |-> [g \in [D -> X] |-> Body(g, i)]]
           Eq(f) == f = [i \in D |-> Body(f, i)]
           linked == CHOOSE f : Eq(f)
           r == [i \in D |-> i]
<1>1. Linked(t) = {i \in D : linked[i]}
  BY DEF Linked
<1>2. n \in Nat /\ D \in SUBSET Nat
  BY ShapedIs
<1>3. ASSUME NEW i \in D
      PROVE  t[i].parent \in Nat /\ t[i].parent < i /\ (t[i].parent # 0 => t[i].parent \in D)
  <2>1. t[i].parent \in Nat /\ t[i].parent < i
    BY KinIs
  <2>2. QED  BY <1>2, <2>1
<1>4. \A i \in D : \A g : Body(g, i) \in X
  OBVIOUS
<1> HIDE DEF n, X
<1>5. G \in [D -> [[D -> X] -> X]]
  <2>1. \A i \in D : \A g \in [D -> X] : Body(g, i) \in X
    <3> HIDE DEF D, Body
    <3> QED BY <1>4
  <2> HIDE DEF D, Body
  <2>2. QED  BY <2>1
<1>6. ASSUME NEW i \in D, NEW g \in [D -> X], NEW h \in [D -> X],
             \A j \in D : r[j] < r[i] => g[j] = h[j]
      PROVE  G[i][g] = G[i][h]
  <2>1. Body(g, i) = Body(h, i)
    <3>1. CASE t[i].parent = 0
      BY <3>1
    <3>2. CASE t[i].parent # 0
      <4>1. t[i].parent \in D /\ r[t[i].parent] < r[i]
        BY <1>3, <3>2
      <4>2. g[t[i].parent] = h[t[i].parent]
        BY <1>6, <4>1
      <4>3. QED  BY <3>2, <4>2
    <3>3. QED  BY <3>1, <3>2
  <2> HIDE DEF D, Body
  <2>2. QED  BY <2>1
<1>7. r \in [D -> 0 .. n]
  BY <1>2
<1>8. PICK g : Recursive(D, X, G, g)
  <2>1. X # {}
    BY DEF X
  <2>2. Founded(D, X, G, r)
    <3> HIDE DEF G, D, r
    <3> QED BY <1>6, Zenon DEF Founded
  <2>3. n \in Nat
    BY <1>2
  <2> HIDE DEF G, D, r
  <2>4. QED  BY <1>5, <1>7, <2>1, <2>2, <2>3, Recursion
<1>9. Eq(g)
  <2> HIDE DEF D, Body
  <2> QED BY <1>8 DEF Recursive
<1>10. Eq(linked)
  <2> HIDE DEF Eq
  <2> QED BY <1>9
<1>11. \A i \in D : linked[i] = Body(linked, i)
  <2> HIDE DEF linked, D, Body
  <2> QED BY <1>10
<1> HIDE DEF linked
<1>12. ASSUME NEW i \in D
       PROVE  i \in Linked(t) <=>
                i = Root \/ (/\ t[i].parent \in Linked(t)
                             /\ i \in Range(t[t[i].parent].children))
  <2> DEFINE q == t[i].parent
  <2>1. i \in Linked(t) <=> Body(linked, i)
    BY <1>1, <1>11, <1>12
  <2>2. q \in Linked(t) <=> q # 0 /\ linked[q]
    BY <1>1, <1>2, <1>3
  <2>3. QED  BY <2>1, <2>2
<1>13. QED  BY <1>1, <1>12 DEF n

\* Only one set of nodes is what the recursion of Linked makes of a tree.
LEMMA LinkedBy ==
  ASSUME NEW t, Shaped(t), NEW L \in SUBSET (1 .. Len(t)),
         \A i \in 1 .. Len(t) :
           i \in L <=> i = Root \/ (/\ t[i].parent \in L
                                    /\ i \in Range(t[t[i].parent].children))
  PROVE  Linked(t) = L
<1> DEFINE D == 1 .. Len(t)
           S == {i \in D : i \in L <=> i \in Linked(t)}
<1>1. D \in SUBSET Nat
  BY ShapedIs
<1>2. ASSUME NEW i \in D, \A j \in D : j < i => j \in S
      PROVE  i \in S
  <2>1. t[i].parent \in Nat /\ t[i].parent < i /\ Len(t) \in Nat
    BY KinIs, ShapedIs
  <2>2. t[i].parent \in L <=> t[i].parent \in Linked(t)
    <3>1. CASE t[i].parent \in D
      BY <1>2, <2>1, <3>1
    <3>2. CASE t[i].parent \notin D
      BY <3>2, LinkedIs
    <3>3. QED  BY <3>1, <3>2
  <2>3. QED  BY <2>2, LinkedIs
<1> HIDE DEF S
<1>3. D \subseteq S
  BY <1>1, <1>2, StrongInduction
<1>4. \A i \in D : i \in L <=> i \in Linked(t)
  BY <1>3 DEF S
<1>5. QED  BY <1>4, LinkedIs

\* What the nodes there were have for paths, what is added does not change.
LEMMA AddPath ==
  ASSUME NEW t, Shaped(t), NEW x, IsNode(x), x.children = <<>>, x.parent \in 0 .. Len(t)
  PROVE  /\ \A i \in 0 .. Len(t) : PathOf(Add(t, x))[i] = PathOf(t)[i]
         /\ PathOf(Add(t, x))[Len(t) + 1] = Append(PathOf(t)[x.parent], San[x.name])
<1> DEFINE u == Add(t, x)
           n == Len(t)
           D == 0 .. n
           S == {i \in D : PathOf(u)[i] = PathOf(t)[i]}
<1>1. n \in Nat /\ n > 0 /\ Root = 1
  BY ShapedIs DEF Root
<1>2. Shaped(u) /\ Len(u) = n + 1
  BY AddShaped
<1>3. /\ u[n + 1].parent = x.parent /\ u[n + 1].name = San[x.name]
      /\ \A i \in 1 .. n : u[i].parent = t[i].parent /\ u[i].name = t[i].name
  BY AddIs DEF Alike, Shaped
<1> HIDE DEF u
<1>4. \A i \in 0 .. n + 1 : PathOf(u)[i] = IF i <= Root THEN <<>>
                                          ELSE Append(PathOf(u)[u[i].parent], u[i].name)
  BY <1>2, PathIs
<1>5. \A i \in 0 .. n : PathOf(t)[i] = IF i <= Root THEN <<>>
                                      ELSE Append(PathOf(t)[t[i].parent], t[i].name)
  BY PathIs
<1>6. ASSUME NEW i \in D, \A j \in D : j < i => j \in S
      PROVE  i \in S
  <2>1. i \in 0 .. n /\ i \in 0 .. n + 1
    BY <1>1
  <2>2. CASE i <= Root
    BY <1>4, <1>5, <2>1, <2>2
  <2>3. CASE ~(i <= Root)
    <3>1. i \in 1 .. n /\ t[i].parent \in D /\ t[i].parent < i
      <4>1. i \in 1 .. n
        BY <1>1, <2>1, <2>3
      <4>2. t[i].parent \in 0 .. Len(t) /\ t[i].parent < i
        BY <4>1, KinIs
      <4>3. QED  BY <4>1, <4>2
    <3>2. PathOf(u)[t[i].parent] = PathOf(t)[t[i].parent]
      BY <1>6, <3>1
    <3>3. u[i].parent = t[i].parent /\ u[i].name = t[i].name
      BY <1>3, <3>1
    <3>4. QED  BY <1>4, <1>5, <2>1, <2>3, <3>2, <3>3
  <2>4. QED  BY <2>2, <2>3
<1>7. D \subseteq S
  <2>1. D \in SUBSET Nat
    BY <1>1
  <2> HIDE DEF D, S
  <2>2. QED  BY <1>6, <2>1, StrongInduction
<1>8. PathOf(u)[n + 1] = Append(PathOf(u)[x.parent], San[x.name])
  <2>1. n + 1 \in 0 .. n + 1 /\ ~(n + 1 <= Root)
    BY <1>1
  <2>2. QED  BY <1>3, <1>4, <2>1
<1>9. \A i \in D : PathOf(u)[i] = PathOf(t)[i]
  BY <1>7
<1>10. QED  BY <1>8, <1>9 DEF u

\* What is added is linked if its directory is.
LEMMA AddLinks ==
  ASSUME NEW t, Shaped(t), NEW x, IsNode(x), x.children = <<>>, x.parent \in 1 .. Len(t)
  PROVE  Linked(Add(t, x)) = Linked(t) \union
           {i \in {Len(t) + 1} : x.parent \in Linked(t) /\ t[x.parent].kind = "dir"}
<1> DEFINE u == Add(t, x)
           n == Len(t) + 1
           L == Linked(t) \union
                  {i \in {n} : x.parent \in Linked(t) /\ t[x.parent].kind = "dir"}
<1>1. Len(t) \in Nat /\ Linked(t) \subseteq 1 .. Len(t) /\ Root = 1 /\ Len(t) >= 1
      /\ x.parent \in 0 .. Len(t)
  BY ShapedIs, LinkedIs DEF Root
<1>2. Shaped(u) /\ Len(u) = n
  BY <1>1, AddShaped
<1>3. /\ u[n].parent = x.parent
      /\ \A i \in 1 .. Len(t) :
           /\ u[i].parent = t[i].parent
           /\ u[i].children = IF i = x.parent /\ t[i].kind = "dir"
                              THEN Append(t[i].children, n) ELSE t[i].children
  BY <1>1, AddIs DEF Alike, Shaped
<1>4. \A i \in 1 .. Len(t) : /\ t[i].children \in Seq(Nat)
                              /\ Range(t[i].children) \subseteq 1 .. Len(t)
  <2>1. ASSUME NEW i \in 1 .. Len(t), NEW c \in Range(t[i].children) PROVE c \in 1 .. Len(t)
    <3>1. c \in i + 1 .. Len(t)
      BY KinIs
    <3>2. QED  BY <1>1, <3>1
  <2>2. QED  BY <2>1, KinIs
<1>5. ASSUME NEW i \in 1 .. Len(t)
      PROVE  Range(u[i].children) = IF i = x.parent /\ t[i].kind = "dir"
                                    THEN Range(t[i].children) \union {n}
                                    ELSE Range(t[i].children)
  <2>1. Range(Append(t[i].children, n)) = Range(t[i].children) \union {n}
    <3>1. t[i].children \in Seq(Nat) /\ n \in Nat
      BY <1>1, <1>4
    <3> HIDE DEF n
    <3>2. QED  BY <3>1, RangeAppend
  <2> HIDE DEF n, u
  <2>2. QED  BY <1>3, <2>1
<1> HIDE DEF u
<1>6. ASSUME NEW i \in 1 .. Len(u)
      PROVE  i \in L <=> i = Root \/ (/\ u[i].parent \in L
                                      /\ i \in Range(u[u[i].parent].children))
  <2>1. CASE i \in 1 .. Len(t)
    <3>1. i # n /\ (i \in L <=> i \in Linked(t)) /\ t[i].parent \in Nat /\ t[i].parent < i
      BY <1>1, <2>1, KinIs
    <3>2. u[i].parent = t[i].parent /\ (t[i].parent \in L <=> t[i].parent \in Linked(t))
      BY <1>1, <1>3, <2>1, <3>1
    <3>3. t[i].parent \in Linked(t) =>
            (i \in Range(u[t[i].parent].children) <=> i \in Range(t[t[i].parent].children))
      BY <1>1, <1>5, <3>1
    <3>4. QED  BY <2>1, <3>1, <3>2, <3>3, LinkedIs
  <2>2. CASE i = n
    <3>1. n # Root /\ n \notin Linked(t) /\ n \notin 1 .. Len(t)
      BY <1>1
    <3>2. x.parent \in L <=> x.parent \in Linked(t)
      BY <1>1
    <3>3. n \in Range(u[x.parent].children) <=> t[x.parent].kind = "dir"
      BY <1>4, <1>5, <3>1
    <3>4. QED  BY <1>3, <2>2, <3>1, <3>2, <3>3
  <2>3. QED  BY <1>1, <1>2, <2>1, <2>2
<1>7. L \in SUBSET (1 .. Len(u))
  BY <1>1, <1>2
<1> HIDE DEF L
<1>8. Linked(u) = L
  BY <1>2, <1>6, <1>7, LinkedBy
<1>9. QED  BY <1>8 DEF L, u

\* Only the root has the empty path.
LEMMA EmptyPath ==
  ASSUME NEW t, Shaped(t), NEW i \in 1 .. Len(t)
  PROVE  IsList(PathOf(t)[i]) /\ (PathOf(t)[i] = <<>> <=> i = Root)
<1>1. Len(t) \in Nat /\ i \in 0 .. Len(t)
  BY ShapedIs
<1>2. IsList(PathOf(t)[i])
  BY <1>1, PathIs
<1>3. CASE i = Root
  BY <1>1, <1>2, <1>3, PathIs DEF Root
<1>4. CASE i # Root
  <2>1. i \in 2 .. Len(t) /\ t[i].parent \in 0 .. Len(t)
    BY <1>4, KinIs
  <2>2. PathOf(t)[i] = Append(PathOf(t)[t[i].parent], t[i].name)
        /\ IsList(PathOf(t)[t[i].parent])
    <3>1. i \in 0 .. Len(t) /\ ~(i <= Root)
      BY <1>1, <2>1 DEF Root
    <3>2. QED  BY <2>1, <3>1, PathIs
  <2>3. Len(PathOf(t)[i]) > 0
    BY <2>2, OneMoreIs
  <2>4. QED  BY <1>2, <1>4, <2>3
<1>5. QED  BY <1>3, <1>4

\* Where a directory has no child of a name, it lists none.
LEMMA NoChild ==
  ASSUME NEW t, Shaped(t), NEW p \in 1 .. Len(t), t[p].kind = "dir", NEW n, Lookup(t, p, n) = 0
  PROVE  \A c \in Range(t[p].children) : t[c].name # n
<1> DEFINE list == t[p].children
           named == {k \in DOMAIN list : t[list[k]].name = n}
<1>1. Lookup(t, p, n) = IF IsDir(t, p) /\ named # {} THEN list[Min(named)] ELSE 0
  BY DEF Lookup
<1>2. IsDir(t, p)
  BY ShapedIs DEF IsDir
<1>3. list \in Seq(Nat) /\ \A c \in Range(list) : c \in p + 1 .. Len(t)
  BY KinIs
<1>4. named = {}
  <2> SUFFICES ASSUME named # {} PROVE FALSE
    OBVIOUS
  <2>1. named \in SUBSET Nat
    BY <1>3
  <2> HIDE DEF list
  <2>2. Min(named) \in named
    BY <2>1, MinIs
  <2>3. list[Min(named)] \in Range(list)
    BY <1>3, <2>2 DEF Range
  <2>4. list[Min(named)] \in p + 1 .. Len(t)
    BY <1>3, <2>3
  <2>5. QED  BY <1>1, <1>2, <2>4
<1>5. QED  BY <1>4 DEF Range

\* What is below something beside the generated directories is so, too.
LEMMA BesideOn ==
  ASSUME NEW s, IsList(s), NEW n
  PROVE  /\ Beside(Append(s, n)) <=> IF s = <<>> THEN n \notin Generated ELSE Beside(s)
         /\ Append(s, n) # <<>>
<1>1. /\ Len(s) \in Nat /\ IsList(Append(s, n)) /\ Len(Append(s, n)) = Len(s) + 1
      /\ Append(s, n)[Len(s) + 1] = n /\ \A i \in 1 .. Len(s) : Append(s, n)[i] = s[i]
  BY OneMoreIs
<1>2. Append(s, n) # <<>>
  BY <1>1
<1>3. CASE s = <<>>
  <2>1. Append(s, n)[1] = n
    BY <1>1, <1>3
  <2>2. QED  BY <1>2, <1>3, <2>1 DEF Beside
<1>4. CASE s # <<>>
  <2>1. s \in Seq(Range(s))
    BY DEF IsList
  <2>2. 1 \in 1 .. Len(s)
    BY <1>4, <2>1
  <2>3. Append(s, n)[1] = s[1]
    BY <1>1, <2>2
  <2>4. QED  BY <1>2, <1>4, <2>3 DEF Beside
<1>5. QED  BY <1>2, <1>3, <1>4

\* The nodes that stand beside the generated directories; no two have one path; the
\* directories and files among them.
Own(t)  == {i \in Linked(t) : Beside(PathOf(t)[i])}
Sole(t) == \A i, j \in Own(t) : PathOf(t)[i] = PathOf(t)[j] => i = j
OwnDirs(t)  == {PathOf(t)[i] : i \in {j \in Own(t) : t[j].kind = "dir"}}
OwnFiles(t) == {<<PathOf(t)[i], t[i].content>> : i \in {j \in Own(t) : t[j].kind # "dir"}}

Bears(t, D, F) ==
  /\ Shaped(t) /\ Sole(t) /\ OwnDirs(t) = D /\ OwnFiles(t) = F
  /\ \A i \in Own(t) : t[i].kind = "dir" => t[i].content = None

\* What a node's path has to do with its parent's.
LEMMA OwnIs ==
  ASSUME NEW t, Shaped(t), NEW i \in Linked(t), i # Root
  PROVE  LET q == t[i].parent IN
         /\ i \in 1 .. Len(t) /\ q \in Linked(t) /\ q \in 1 .. Len(t) /\ i \in Range(t[q].children)
         /\ IsList(PathOf(t)[q]) /\ PathOf(t)[i] = Append(PathOf(t)[q], t[i].name)
         /\ i \in Own(t) <=> IF q = Root THEN t[i].name \notin Generated ELSE q \in Own(t)
<1> DEFINE q == t[i].parent
<1>1. i \in 1 .. Len(t) /\ q \in Linked(t) /\ q \in 1 .. Len(t) /\ i \in Range(t[q].children)
  BY LinkedIs
<1>2. IsList(PathOf(t)[q]) /\ (PathOf(t)[q] = <<>> <=> q = Root)
  BY <1>1, EmptyPath
<1>3. PathOf(t)[i] = Append(PathOf(t)[q], t[i].name)
  <2>1. i \in 0 .. Len(t) /\ ~(i <= Root)
    BY <1>1, ShapedIs DEF Root
  <2>2. QED  BY <2>1, PathIs
<1>4. i \in Own(t) <=> IF q = Root THEN t[i].name \notin Generated ELSE q \in Own(t)
  <2> DEFINE s == PathOf(t)[q]
             m == t[i].name
  <2>1. i \in Own(t) <=> Beside(Append(s, m))
    BY <1>3 DEF Own
  <2>2. q \in Own(t) <=> Beside(s)
    BY <1>1 DEF Own
  <2> HIDE DEF s, m, q
  <2>3. Beside(Append(s, m)) <=> IF s = <<>> THEN m \notin Generated ELSE Beside(s)
    BY <1>2, BesideOn DEF s
  <2>4. QED  BY <1>2, <2>1, <2>2, <2>3 DEF s, m
<1>5. QED  BY <1>1, <1>2, <1>3, <1>4

\* When a directory has no child of a name, nothing of ours has its path.
LEMMA FreePath ==
  ASSUME NEW t, Shaped(t), Sole(t), NEW d \in Linked(t), t[d].kind = "dir", NEW n,
         Lookup(t, d, n) = 0, Beside(Append(PathOf(t)[d], n))
  PROVE  \A j \in Own(t) : PathOf(t)[j] # Append(PathOf(t)[d], n)
<1> SUFFICES ASSUME NEW j \in Own(t), PathOf(t)[j] = Append(PathOf(t)[d], n)
             PROVE  FALSE
  OBVIOUS
<1> DEFINE q == t[j].parent
<1>1. j \in Linked(t) /\ d \in 1 .. Len(t) /\ j \in 1 .. Len(t)
  BY LinkedIs DEF Own
<1>2. IsList(PathOf(t)[d]) /\ (PathOf(t)[d] = <<>> <=> d = Root)
  BY <1>1, EmptyPath
<1>3. j # Root
  BY <1>1, EmptyPath DEF Own, Beside
<1>4. /\ q \in Linked(t) /\ q \in 1 .. Len(t) /\ j \in Range(t[q].children)
      /\ IsList(PathOf(t)[q]) /\ PathOf(t)[j] = Append(PathOf(t)[q], t[j].name)
  BY <1>1, <1>3, OwnIs
<1>5. PathOf(t)[q] = PathOf(t)[d] /\ t[j].name = n
  <2> DEFINE s == PathOf(t)[q]
             r == PathOf(t)[d]
             m == t[j].name
  <2>1. IsList(s) /\ IsList(r) /\ Append(s, m) = Append(r, n)
    BY <1>2, <1>4
  <2> HIDE DEF s, r, m
  <2>2. s = r /\ m = n
    BY <2>1, SameLists
  <2>3. QED  BY <2>2 DEF s, r, m
<1>6. q = d
  <2>1. PathOf(t)[q] = <<>> <=> q = Root
    BY <1>4, EmptyPath
  <2>2. CASE PathOf(t)[d] = <<>>
    BY <1>2, <1>5, <2>1, <2>2
  <2>3. CASE PathOf(t)[d] # <<>>
    <3>1. Beside(PathOf(t)[d])
      BY <1>2, <2>3, BesideOn
    <3>2. q \in Own(t) /\ d \in Own(t)
      BY <1>4, <1>5, <3>1 DEF Own
    <3>3. QED  BY <1>5, <3>2 DEF Sole
  <2>4. QED  BY <2>2, <2>3
<1>7. QED  BY <1>1, <1>4, <1>5, <1>6, NoChild

\* The paths of files, and files of one content at given paths.
Paths(F) == {f[1] : f \in F}
Filled(N, c) == {<<v, c>> : v \in N}

\* A node is added that has q for its path; N is {q} if it is one of ours.
Adds(t, D, F, x, q, N) ==
  /\ Bears(t, D, F)
  /\ IsNode(x) /\ x.children = <<>> /\ x.parent \in 1 .. Len(t)
  /\ x.kind = "dir" => x.content = None
  /\ q = Append(PathOf(t)[x.parent], San[x.name])
  /\ N = {v \in {q} : x.parent \in Linked(t) /\ t[x.parent].kind = "dir" /\ Beside(v)}
  /\ N # {} => Lookup(t, x.parent, San[x.name]) = 0

\* What adding a node does to ours.
LEMMA AddOwn ==
  ASSUME NEW t, NEW D, NEW F, NEW x, NEW q, NEW N, Adds(t, D, F, x, q, N)
  PROVE  LET u == Add(t, x) IN
         /\ x.kind = "dir" => Bears(u, D \union N, F)
         /\ x.kind # "dir" => Bears(u, D, F \union Filled(N, x.content))
         /\ N # {} => q \notin D \union Paths(F)
<1> DEFINE u == Add(t, x)
           n == Len(t) + 1
           there == x.parent \in Linked(t) /\ t[x.parent].kind = "dir" /\ Beside(q)
<1> USE DEF Adds
<1>1. /\ Shaped(t) /\ Sole(t) /\ Len(t) \in Nat /\ Linked(t) \subseteq 1 .. Len(t)
      /\ x.parent \in 0 .. Len(t)
  BY ShapedIs, LinkedIs DEF Bears
<1>2. Shaped(u) /\ Len(u) = n
  BY <1>1, AddShaped
<1>3. /\ u[n].kind = x.kind /\ u[n].content = x.content
      /\ \A i \in 1 .. Len(t) : u[i].content = t[i].content /\ u[i].kind = t[i].kind
  <2>1. IsList(t) /\ \A i \in 1 .. Len(t) : IsNode(t[i])
    BY <1>1 DEF Shaped
  <2>2. /\ u[n].kind = x.kind /\ u[n].content = x.content
        /\ \A i \in 1 .. Len(t) : Alike(t[i], u[i])
    BY <1>1, <2>1, AddIs
  <2> HIDE DEF u, n
  <2>3. QED  BY <2>2 DEF Alike
<1>4. Linked(u) = Linked(t) \union
        {i \in {n} : x.parent \in Linked(t) /\ t[x.parent].kind = "dir"}
  BY <1>1, AddLinks
<1>5. (\A i \in 1 .. Len(t) : PathOf(u)[i] = PathOf(t)[i]) /\ PathOf(u)[n] = q
  <2>1. /\ \A i \in 0 .. Len(t) : PathOf(u)[i] = PathOf(t)[i]
        /\ PathOf(u)[n] = q
    BY <1>1, AddPath
  <2>2. \A i \in 1 .. Len(t) : i \in 0 .. Len(t)
    BY <1>1
  <2>3. QED  BY <2>1, <2>2
<1>6. n \notin 1 .. Len(t)
  BY <1>1
<1> HIDE DEF u, n
<1>7. Own(u) = Own(t) \union {i \in {n} : there}
  BY <1>1, <1>4, <1>5, <1>6 DEF Own
<1>7a. N = {v \in {q} : there} /\ (there <=> N # {})
  OBVIOUS
<1>8. Own(t) \subseteq 1 .. Len(t)
  BY <1>1 DEF Own
<1>9. there => \A j \in Own(t) : PathOf(t)[j] # q
  BY <1>1, <1>7a, FreePath
<1>10. Sole(u)
  BY <1>1, <1>5, <1>7, <1>8, <1>9 DEF Sole
<1>11. OwnDirs(u) = D \union {p \in {q} : there /\ x.kind = "dir"}
  <2>1. {j \in Own(u) : u[j].kind = "dir"}
          = {j \in Own(t) : t[j].kind = "dir"} \union {i \in {n} : there /\ x.kind = "dir"}
    BY <1>3, <1>7, <1>8
  <2>2. OwnDirs(u) = OwnDirs(t) \union {p \in {q} : there /\ x.kind = "dir"}
    <3> DEFINE A == {j \in Own(t) : t[j].kind = "dir"}
               B == {i \in {n} : there /\ x.kind = "dir"}
               C == {p \in {q} : there /\ x.kind = "dir"}
    <3>1. OwnDirs(u) = {PathOf(u)[i] : i \in A \union B} /\ OwnDirs(t) = {PathOf(t)[i] : i \in A}
      BY <2>1 DEF OwnDirs
    <3>2. \A i \in A : PathOf(u)[i] = PathOf(t)[i]
      BY <1>5, <1>8
    <3>3. {PathOf(u)[i] : i \in B} = C
      BY <1>5
    <3> HIDE DEF A, B, C
    <3>4. {PathOf(u)[i] : i \in A} = {PathOf(t)[i] : i \in A}
      BY <3>2
    <3>5. QED  BY <3>1, <3>3, <3>4 DEF C
  <2>3. QED  BY <2>2 DEF Bears
<1>12. OwnFiles(u) = F \union {f \in {<<q, x.content>>} : there /\ x.kind # "dir"}
  <2>1. {j \in Own(u) : u[j].kind # "dir"}
          = {j \in Own(t) : t[j].kind # "dir"} \union {i \in {n} : there /\ x.kind # "dir"}
    BY <1>3, <1>7, <1>8
  <2>2. OwnFiles(u) = OwnFiles(t) \union {f \in {<<q, x.content>>} : there /\ x.kind # "dir"}
    <3> DEFINE A == {j \in Own(t) : t[j].kind # "dir"}
               B == {i \in {n} : there /\ x.kind # "dir"}
               C == {f \in {<<q, x.content>>} : there /\ x.kind # "dir"}
               f(i) == <<PathOf(t)[i], t[i].content>>
               g(i) == <<PathOf(u)[i], u[i].content>>
    <3>1. OwnFiles(u) = {g(i) : i \in A \union B} /\ OwnFiles(t) = {f(i) : i \in A}
      BY <2>1 DEF OwnFiles
    <3>2. \A i \in A : g(i) = f(i)
      BY <1>3, <1>5, <1>8
    <3>3. {g(i) : i \in B} = C
      <4>1. g(n) = <<q, x.content>>
        BY <1>3, <1>5
      <4> HIDE DEF f, g
      <4>2. QED  BY <4>1
    <3> HIDE DEF A, B, C, f, g
    <3>4. {g(i) : i \in A} = {f(i) : i \in A}
      BY <3>2
    <3>5. QED  BY <3>1, <3>3, <3>4 DEF C
  <2>3. QED  BY <2>2 DEF Bears
<1>13. \A i \in Own(u) : u[i].kind = "dir" => u[i].content = None
  BY <1>3, <1>7, <1>8 DEF Bears
<1>14. there => q \notin D \union Paths(F)
  <2>1. \A p \in D : \E j \in Own(t) : p = PathOf(t)[j]
    BY DEF Bears, OwnDirs
  <2>2. \A f \in F : \E j \in Own(t) : f = <<PathOf(t)[j], t[j].content>>
    BY DEF Bears, OwnFiles
  <2>3. \A f \in F : \E j \in Own(t) : f[1] = PathOf(t)[j]
    BY <2>2
  <2>4. QED  BY <1>9, <2>1, <2>3 DEF Paths
<1>16. Bears(u, D \union {p \in {q} : there /\ x.kind = "dir"},
                F \union {f \in {<<q, x.content>>} : there /\ x.kind # "dir"})
  BY <1>2, <1>10, <1>11, <1>12, <1>13 DEF Bears
<1> HIDE DEF there
<1>17. x.kind = "dir" => Bears(u, D \union N, F)
  <2>1. SUFFICES ASSUME x.kind = "dir" PROVE Bears(u, D \union N, F)
    OBVIOUS
  <2>2. /\ D \union {p \in {q} : there /\ x.kind = "dir"} = D \union N
        /\ F \union {f \in {<<q, x.content>>} : there /\ x.kind # "dir"} = F
    BY <1>7a, <2>1
  <2>3. QED  BY <1>16, <2>2
<1>18. x.kind # "dir" => Bears(u, D, F \union Filled(N, x.content))
  <2>1. SUFFICES ASSUME x.kind # "dir" PROVE Bears(u, D, F \union Filled(N, x.content))
    OBVIOUS
  <2>2. /\ D \union {p \in {q} : there /\ x.kind = "dir"} = D
        /\ F \union {f \in {<<q, x.content>>} : there /\ x.kind # "dir"}
             = F \union Filled(N, x.content)
    BY <1>7a, <2>1 DEF Filled
  <2>3. QED  BY <1>16, <2>2
<1>19. N # {} => q \notin D \union Paths(F)
  BY <1>7a, <1>14
<1>20. QED  BY <1>17, <1>18, <1>19 DEF u

\* Where a path leads: to its node, or out of our way.
At(t, i, p) ==
  /\ i \in 1 .. Len(t)
  /\ IF p = <<>> \/ Beside(p)
     THEN i \in Linked(t) /\ PathOf(t)[i] = p /\ t[i].kind = "dir"
     ELSE i # Root /\ i \notin Own(t)

\* Where something of ours is to be, its directory is known; elsewhere nothing of ours
\* comes about.
LEMMA AtIs ==
  ASSUME NEW t, Shaped(t), NEW i, NEW p, IsList(p), At(t, i, p), NEW n
  PROVE  /\ i \in 1 .. Len(t) /\ i \in 0 .. Len(t)
         /\ Beside(Append(p, n)) => i \in Linked(t) /\ PathOf(t)[i] = p /\ t[i].kind = "dir"
         /\ ~Beside(Append(p, n)) =>
              \A m \in {n, San[n]} : ~(i \in Linked(t) /\ Beside(Append(PathOf(t)[i], m)))
<1>1. i \in 1 .. Len(t) /\ i \in 0 .. Len(t) /\ IsList(PathOf(t)[i])
      /\ (PathOf(t)[i] = <<>> <=> i = Root)
  BY ShapedIs, EmptyPath DEF At
<1>2. Beside(Append(p, n)) <=> IF p = <<>> THEN n \notin Generated ELSE Beside(p)
  BY BesideOn
<1>3. ASSUME ~Beside(Append(p, n)), NEW m \in {n, San[n]}, i \in Linked(t),
             Beside(Append(PathOf(t)[i], m))
      PROVE  FALSE
  <2>1. IF PathOf(t)[i] = <<>> THEN m \notin Generated ELSE Beside(PathOf(t)[i])
    BY <1>1, <1>3, BesideOn
  <2>2. CASE i = Root
    <3>1. p = <<>>
      BY <1>1, <2>2 DEF At
    <3>2. n \in Generated /\ San[n] = n
      BY <1>2, <1>3, <3>1, WordAssumption
    <3>3. QED  BY <1>1, <1>3, <2>1, <2>2, <3>2
  <2>3. CASE i # Root
    <3>1. i \in Own(t)
      BY <1>1, <1>3, <2>1, <2>3 DEF Own
    <3>2. p # <<>> /\ Beside(p)
      BY <1>1, <2>3, <3>1 DEF At
    <3>3. QED  BY <1>2, <1>3, <3>2
  <2>4. QED  BY <2>2, <2>3
<1>4. Beside(Append(p, n)) => i \in Linked(t) /\ PathOf(t)[i] = p /\ t[i].kind = "dir"
  BY <1>2 DEF At
<1>5. QED  BY <1>1, <1>3, <1>4

\* A child that is found: it is ours if its path is.
LEMMA ChildIs ==
  ASSUME NEW t, NEW D, NEW F, Bears(t, D, F), NEW i, NEW p, IsList(p), At(t, i, p), NEW n,
         Lookup(t, i, n) # 0
  PROVE  LET c == Lookup(t, i, n)
             q == Append(p, n)
         IN  /\ c \in 1 .. Len(t) /\ c # Root
             /\ c \in Own(t) <=> Beside(q)
             /\ Beside(q) => c \in Linked(t) /\ PathOf(t)[c] = q
             /\ Beside(q) /\ t[c].kind = "dir" => q \in D
             /\ Beside(q) /\ t[c].kind # "dir" => q \in Paths(F)
<1> DEFINE c == Lookup(t, i, n)
           q == Append(p, n)
<1>1. Shaped(t) /\ Len(t) \in Nat
  BY ShapedIs DEF Bears
<1>2. /\ i \in 1 .. Len(t) /\ i \in 0 .. Len(t)
      /\ Beside(q) => i \in Linked(t) /\ PathOf(t)[i] = p /\ t[i].kind = "dir"
      /\ ~Beside(q) => ~(i \in Linked(t) /\ Beside(Append(PathOf(t)[i], n)))
  BY <1>1, AtIs
<1>3. c \in i + 1 .. Len(t) /\ c \in Range(t[i].children) /\ t[c].name = n /\ t[c].parent = i
  BY <1>1, <1>2, LookupIs
<1> HIDE DEF c, q
<1>4. c \in 1 .. Len(t) /\ c # Root /\ (c \in Linked(t) <=> i \in Linked(t))
  <2>1. c \in 1 .. Len(t) /\ c # Root
    BY <1>1, <1>2, <1>3 DEF Root
  <2>2. QED  BY <1>1, <1>3, <2>1, LinkedIs
<1>5. c \in Linked(t) => PathOf(t)[c] = Append(PathOf(t)[i], n)
  BY <1>1, <1>3, <1>4, OwnIs
<1>6. c \in Own(t) <=> Beside(q)
  BY <1>2, <1>4, <1>5 DEF Own, q
<1>7. Beside(q) => c \in Linked(t) /\ PathOf(t)[c] = q
  BY <1>2, <1>4, <1>5 DEF q
<1>8. Beside(q) /\ t[c].kind = "dir" => q \in D
  BY <1>6, <1>7 DEF Bears, OwnDirs
<1>9. Beside(q) /\ t[c].kind # "dir" => q \in Paths(F)
  <2>1. SUFFICES ASSUME Beside(q), t[c].kind # "dir" PROVE q \in Paths(F)
    OBVIOUS
  <2>2. <<q, t[c].content>> \in F
    BY <1>6, <1>7, <2>1 DEF Bears, OwnFiles
  <2>3. <<q, t[c].content>>[1] = q
    OBVIOUS
  <2>4. QED  BY <2>2, <2>3 DEF Paths
<1>10. QED  BY <1>4, <1>6, <1>7, <1>8, <1>9 DEF c, q

\* What a directory and a file of a path add to ours.
Ours(q) == {v \in {q} : Beside(v)}
New(F, q, c) == {f \in {<<q, c>>} : Beside(q) /\ q \notin Paths(F)}

\* A directory that is looked for, and made if it is not there.
LEMMA MakeDir ==
  ASSUME NEW t, NEW D, NEW F, Bears(t, D, F), NEW i, NEW p, IsList(p), At(t, i, p), NEW n,
         NEW q, q = Append(p, n), Beside(q) => San[n] = n /\ q \notin Paths(F)
  PROVE  LET r == GetOrCreateDir(t, i, n) IN
         Bears(r.tree, D \union Ours(q), F) /\ At(r.tree, r.ino, q)
<1> DEFINE c == Lookup(t, i, n)
           u == AddDirectory(t, i, n)
           m == Len(t) + 1
<1>1. Shaped(t) /\ Len(t) \in Nat /\ Len(t) >= 1 /\ q # <<>>
  BY ShapedIs, BesideOn DEF Bears
<1>2. CASE c # 0
  <2>1. GetOrCreateDir(t, i, n) = [tree |-> t, ino |-> c]
    BY <1>2 DEF GetOrCreateDir
  <2>2. /\ c \in 1 .. Len(t) /\ c # Root
        /\ c \in Own(t) <=> Beside(q)
        /\ Beside(q) => c \in Linked(t) /\ PathOf(t)[c] = q
        /\ Beside(q) /\ t[c].kind = "dir" => q \in D
        /\ Beside(q) /\ t[c].kind # "dir" => q \in Paths(F)
    BY <1>2, ChildIs
  <2> HIDE DEF c
  <2>3. At(t, c, q)
    BY <1>1, <2>2 DEF At
  <2>4. D \union Ours(q) = D
    BY <2>2 DEF Ours
  <2> DEFINE r == GetOrCreateDir(t, i, n)
  <2>5. r.tree = t /\ r.ino = c
    BY <2>1
  <2> HIDE DEF r
  <2>6. QED  BY <2>3, <2>4, <2>5 DEF r
<1>3. CASE c = 0
  <2>1. GetOrCreateDir(t, i, n) = [tree |-> u, ino |-> m]
    BY <1>3 DEF GetOrCreateDir
  <2> DEFINE x == Dir(i, n)
             w == Append(PathOf(t)[i], San[n])
             N == {v \in {w} : i \in Linked(t) /\ t[i].kind = "dir" /\ Beside(v)}
             E == Ours(q)
  <2>2. /\ i \in 1 .. Len(t)
        /\ Beside(q) => i \in Linked(t) /\ PathOf(t)[i] = p /\ t[i].kind = "dir"
        /\ ~Beside(q) => ~(i \in Linked(t) /\ Beside(w))
    <3> HIDE DEF w
    <3>1. \A z \in {n, San[n]} : ~Beside(q) => ~(i \in Linked(t) /\ Beside(Append(PathOf(t)[i], z)))
      BY <1>1, AtIs
    <3>2. QED  BY <1>1, <3>1, AtIs DEF w
  <2>3. Beside(q) => w = q /\ San[n] = n
    BY <2>2
  <2>4. N = E /\ (N # {} => San[n] = n)
    <3> HIDE DEF w
    <3> QED  BY <2>2, <2>3 DEF Ours
  <2>5. IsNode(x) /\ x.children = <<>> /\ x.parent = i /\ x.kind = "dir" /\ x.content = None
        /\ x.name = n /\ u = Add(t, x)
    BY DEF Dir, IsNode, AddDirectory
  <2> HIDE DEF x, u, c
  <2>6. /\ Bears(u, D \union N, F)
        /\ Len(u) = m /\ PathOf(u)[m] = w /\ u[m].kind = "dir"
        /\ m \in Linked(u) <=> i \in Linked(t) /\ t[i].kind = "dir"
    <3>1. N # {} => Lookup(t, i, San[n]) = 0
      BY <1>3, <2>4 DEF c
    <3>2. w = Append(PathOf(t)[x.parent], San[x.name]) /\ x.parent \in 1 .. Len(t)
          /\ N = {v \in {w} : x.parent \in Linked(t) /\ t[x.parent].kind = "dir" /\ Beside(v)}
          /\ (N # {} => Lookup(t, x.parent, San[x.name]) = 0)
      BY <2>2, <2>5, <3>1
    <3> HIDE DEF w, N
    <3>3. Adds(t, D, F, x, w, N)
      BY <2>5, <3>2 DEF Adds
    <3>4. x.kind = "dir" => Bears(Add(t, x), D \union N, F)
      BY <3>3, AddOwn
    <3>5. x.parent \in 0 .. Len(t)
      BY <1>1, <3>2
    <3> DEFINE a == Add(t, x)
    <3>6. Len(a) = m /\ PathOf(a)[m] = w
      BY <1>1, <2>5, <3>2, <3>5, AddShaped, AddPath
    <3>7. a[m].kind = x.kind
      <4>1. IsList(t) /\ \A j \in 1 .. Len(t) : IsNode(t[j])
        BY <1>1 DEF Shaped
      <4>2. QED  BY <2>5, <3>5, <4>1, AddIs
    <3>8. m \in Linked(a) <=> x.parent \in Linked(t) /\ t[x.parent].kind = "dir"
      <4>1. m \notin Linked(t)
        BY <1>1, LinkedIs
      <4>2. QED  BY <1>1, <2>5, <3>2, <4>1, AddLinks
    <3>9. a = u
      BY <2>5
    <3> HIDE DEF a, m
    <3>10. QED  BY <2>5, <3>4, <3>6, <3>7, <3>8, <3>9 DEF a
  <2>7. At(u, m, q)
    <3>1. m \in 1 .. Len(u) /\ m # Root
      BY <1>1, <2>6 DEF Root
    <3>2. Beside(q) => m \in Linked(u) /\ PathOf(u)[m] = q /\ u[m].kind = "dir"
      BY <2>2, <2>3, <2>6
    <3>3. ~Beside(q) => m \notin Own(u)
      <4> HIDE DEF w
      <4> QED  BY <2>2, <2>6 DEF Own
    <3> HIDE DEF m
    <3>4. QED  BY <1>1, <3>1, <3>2, <3>3 DEF At
  <2> DEFINE r == GetOrCreateDir(t, i, n)
  <2>8. r.tree = u /\ r.ino = m
    BY <2>1
  <2> HIDE DEF r, m, N, E, w
  <2>9. Bears(r.tree, D \union E, F) /\ At(r.tree, r.ino, q)
    BY <2>4, <2>6, <2>7, <2>8
  <2>10. QED  BY <2>9 DEF r, E
<1>4. QED  BY <1>2, <1>3

\* A file that is made unless its name is taken.
Put(t, i, n, c) == IF Lookup(t, i, n) # 0 THEN t ELSE AddRemoteFile(t, i, n, c)

\* It is the one at its path, or there was one.
LEMMA PutFile ==
  ASSUME NEW t, NEW D, NEW F, Bears(t, D, F), NEW i, NEW p, IsList(p), At(t, i, p), NEW n, NEW c,
         NEW q, q = Append(p, n), Beside(q) => San[n] = n /\ q \notin D
  PROVE  Bears(Put(t, i, n, c), D, F \union New(F, q, c))
<1> SUFFICES Bears(IF Lookup(t, i, n) # 0 THEN t ELSE AddRemoteFile(t, i, n, c), D,
                   F \union New(F, q, c))
  BY DEF Put
<1> DEFINE u == AddRemoteFile(t, i, n, c)
           new == New(F, q, c)
           k == Lookup(t, i, n)
<1>1. Shaped(t) /\ Len(t) \in Nat
  BY ShapedIs DEF Bears
<1>2. CASE k # 0
  <2>1. /\ Beside(q) /\ t[k].kind = "dir" => q \in D
        /\ Beside(q) /\ t[k].kind # "dir" => q \in Paths(F)
    BY <1>2, ChildIs
  <2> HIDE DEF k
  <2>2. F \union new = F
    BY <2>1 DEF New
  <2>3. QED  BY <1>2, <2>2 DEF k
<1>3. CASE k = 0
  <2> DEFINE x == File(i, n, c)
             w == Append(PathOf(t)[i], San[n])
             N == {v \in {w} : i \in Linked(t) /\ t[i].kind = "dir" /\ Beside(v)}
             E == Ours(q)
  <2>2. /\ i \in 1 .. Len(t)
        /\ Beside(q) => i \in Linked(t) /\ PathOf(t)[i] = p /\ t[i].kind = "dir"
        /\ ~Beside(q) => ~(i \in Linked(t) /\ Beside(w))
    <3> HIDE DEF w
    <3>1. \A z \in {n, San[n]} : ~Beside(q) => ~(i \in Linked(t) /\ Beside(Append(PathOf(t)[i], z)))
      BY <1>1, AtIs
    <3>2. QED  BY <1>1, <3>1, AtIs DEF w
  <2>3. Beside(q) => w = q /\ San[n] = n
    BY <2>2
  <2>4. N = E /\ (N # {} => San[n] = n /\ w = q)
    <3> HIDE DEF w
    <3> QED  BY <2>2, <2>3 DEF Ours
  <2>5. IsNode(x) /\ x.children = <<>> /\ x.parent = i /\ x.kind # "dir" /\ x.content = c
        /\ x.name = n /\ u = Add(t, x)
    BY DEF File, IsNode, AddRemoteFile
  <2> HIDE DEF x, u, k
  <2>6. /\ Bears(u, D, F \union Filled(N, c))
        /\ N # {} => w \notin D \union Paths(F)
    <3>1. N # {} => Lookup(t, i, San[n]) = 0
      BY <1>3, <2>4 DEF k
    <3>2. w = Append(PathOf(t)[x.parent], San[x.name]) /\ x.parent \in 1 .. Len(t)
          /\ N = {v \in {w} : x.parent \in Linked(t) /\ t[x.parent].kind = "dir" /\ Beside(v)}
          /\ (N # {} => Lookup(t, x.parent, San[x.name]) = 0)
      BY <2>2, <2>5, <3>1
    <3> HIDE DEF w, N
    <3>3. Adds(t, D, F, x, w, N)
      BY <2>5, <3>2 DEF Adds
    <3>4. /\ x.kind # "dir" => Bears(Add(t, x), D, F \union Filled(N, x.content))
          /\ N # {} => w \notin D \union Paths(F)
      BY <3>3, AddOwn
    <3>5. QED  BY <2>5, <3>4
  <2>7. Filled(N, c) = new
    <3>1. Filled(E, c) = {f \in {<<q, c>>} : Beside(q)}
      BY DEF Filled, Ours
    <3>2. Beside(q) => q \notin Paths(F)
      <4>1. Beside(q) => N # {} /\ w = q
        BY <2>2, <2>4
      <4> HIDE DEF N, w
      <4>2. QED  BY <2>6, <4>1
    <3> HIDE DEF N, E
    <3>3. QED  BY <2>4, <3>1, <3>2 DEF New
  <2> HIDE DEF new, N, E
  <2>8. QED  BY <1>3, <2>6, <2>7 DEF k, u, new
<1>4. QED  BY <1>2, <1>3

\* What the directories on a path add to ours.
Nice(w) == {p \in Prefixes(w) : Beside(p)}

\* All of a path's directories, one after the other.
LEMMA MakeWay ==
  ASSUME NEW t, NEW D, NEW F, Bears(t, D, F), NEW w, IsList(w),
         \A p \in Nice(w) : p \notin Paths(F) /\ \A j \in DOMAIN p : San[p[j]] = p[j]
  PROVE  LET r == GetOrCreatePath(t, w) IN
         Bears(r.tree, D \union Nice(w), F) /\ At(r.tree, r.ino, w)
<1>1. Len(w) \in Nat /\ w \in Seq(Range(w))
  BY ListLength DEF IsList
<1>2. PICK at : Way(t, Root, w, at)
  BY <1>1, WayIs
<1> DEFINE n == Len(w)
           pre(k) == SubSeq(w, 1, k)
           Some(k) == {v \in {pre(l) : l \in 0 .. k} : Beside(v)}
           Fine(k) == Bears(at[k].tree, D \union Some(k), F) /\ At(at[k].tree, at[k].ino, pre(k))
           R == {k \in 0 .. n : Fine(k)}
<1>3. /\ pre(0) = <<>> /\ pre(n) = w
      /\ \A k \in 1 .. n : pre(k) = Append(pre(k - 1), w[k])
      /\ \A k \in 0 .. n : IsList(pre(k))
  <2>1. /\ pre(0) = <<>> /\ pre(n) = w
        /\ \A k \in 1 .. n : pre(k) = Append(pre(k - 1), w[k])
    BY <1>1, PrefixSteps
  <2>2. ASSUME NEW k \in 0 .. n PROVE IsList(pre(k))
    <3>1. pre(k) \in Seq(Range(w))
      BY <1>1, PrefixIs
    <3> HIDE DEF pre
    <3>2. QED  BY <3>1, ListOf
  <2>3. QED  BY <2>1, <2>2
<1>4. Nice(w) = Some(n)
  BY DEF Nice, Prefixes
<1> HIDE DEF pre
<1>5. Some(0) = {}
  BY <1>3 DEF Beside
<1>6. \A k \in 1 .. n : Some(k) = Some(k - 1) \union Ours(pre(k)) /\ Ours(pre(k)) \subseteq Some(n)
  <2>1. ASSUME NEW k \in 1 .. n
        PROVE  Some(k) = Some(k - 1) \union Ours(pre(k)) /\ Ours(pre(k)) \subseteq Some(n)
    <3>1. \A l : l \in 0 .. k <=> l \in 0 .. k - 1 \/ l = k
      BY <1>1
    <3>2. k \in 0 .. n
      BY <1>1
    <3>3. QED  BY <3>1, <3>2 DEF Ours
  <2>2. QED  BY <2>1
<1>7. 0 \in R
  <2>1. at[0].tree = t /\ at[0].ino = Root /\ D \union Some(0) = D
    BY <1>2, <1>5 DEF Way
  <2>2. At(t, Root, <<>>)
    <3>1. Shaped(t) /\ Root \in 1 .. Len(t) /\ t[Root].kind = "dir"
      BY ShapedIs DEF Bears
    <3>2. Root \in Linked(t) /\ PathOf(t)[Root] = <<>>
      BY <3>1, LinkedIs, EmptyPath
    <3>3. QED  BY <3>1, <3>2 DEF At
  <2> HIDE DEF Some
  <2>3. pre(0) = <<>> /\ 0 \in 0 .. n
    BY <1>1, <1>3
  <2>4. Fine(0)
    BY <2>1, <2>2, <2>3
  <2> HIDE DEF Fine
  <2>5. QED  BY <2>3, <2>4
<1>8. ASSUME NEW k \in 1 .. n, k - 1 \in R PROVE k \in R
  <2> DEFINE v == at[k - 1]
             r == GetOrCreateDir(v.tree, v.ino, w[k])
             E == D \union Some(k - 1)
             p == pre(k - 1)
             q == pre(k)
  <2>1. at[k] = r
    BY <1>2 DEF Way
  <2>2. Bears(v.tree, E, F) /\ At(v.tree, v.ino, p)
    <3>1. Fine(k - 1)
      <4> HIDE DEF Fine
      <4> QED  BY <1>8
    <3> HIDE DEF Some
    <3>2. QED  BY <3>1
  <2>3. IsList(p) /\ q = Append(p, w[k])
    BY <1>1, <1>3
  <2>4. Beside(q) => San[w[k]] = w[k] /\ q \notin Paths(F)
    <3>1. SUFFICES ASSUME Beside(q) PROVE San[w[k]] = w[k] /\ q \notin Paths(F)
      OBVIOUS
    <3>2. q \in Nice(w)
      BY <1>4, <1>6, <3>1 DEF Ours
    <3>3. IsList(q) /\ Len(q) = Len(p) + 1 /\ q[Len(p) + 1] = w[k] /\ Len(p) \in Nat
      BY <2>3, OneMoreIs
    <3> HIDE DEF q, p
    <3>4. Len(p) + 1 \in DOMAIN q
      BY <3>3, ListLength
    <3>5. QED  BY <3>2, <3>3, <3>4
  <2> HIDE DEF v, E, p, q
  <2>5. Bears(r.tree, E \union Ours(q), F) /\ At(r.tree, r.ino, q)
    BY <2>2, <2>3, <2>4, MakeDir
  <2>6. E \union Ours(q) = D \union Some(k)
    <3> HIDE DEF Some
    <3> QED  BY <1>6 DEF E, q
  <2> HIDE DEF r, Some
  <2>7. Fine(k)
    BY <2>1, <2>5, <2>6 DEF q
  <2>8. k \in 0 .. n
    BY <1>1
  <2> HIDE DEF Fine
  <2>9. QED  BY <2>7, <2>8
<1>9. 0 .. n \subseteq R
  <2> HIDE DEF R
  <2> QED  BY <1>1, <1>7, <1>8, IntervalInduction
<1>10. Bears(at[n].tree, D \union Nice(w), F) /\ At(at[n].tree, at[n].ino, w)
  <2>1. n \in 0 .. n
    BY <1>1
  <2>2. Fine(n)
    <3> HIDE DEF Fine, n
    <3> QED  BY <1>9, <2>1
  <2>3. pre(n) = w /\ Some(n) = Nice(w)
    BY <1>3, <1>4
  <2> HIDE DEF Some, n
  <2>4. QED  BY <2>2, <2>3
<1>11. GetOrCreatePath(t, w) = at[n]
  BY <1>2 DEF Way, GetOrCreatePath
<1>12. QED  BY <1>10, <1>11

\* A list that has something is what stands before the last, and the last.
LEMMA SplitIs ==
  ASSUME NEW s, IsList(s), s # <<>>
  PROVE  /\ IsList(Front(s)) /\ s = Append(Front(s), Last(s))
         /\ Len(Front(s)) = Len(s) - 1 /\ Len(s) \in Nat /\ Len(s) >= 1 /\ Last(s) = s[Len(s)]
         /\ \A i \in 1 .. Len(s) - 1 : Front(s)[i] = s[i]
<1> DEFINE S == Range(s)
<1>1. s \in Seq(S)
  BY DEF IsList
<1>2. Len(s) \in Nat /\ Len(s) >= 1
  BY <1>1
<1> HIDE DEF S
<1>3. /\ Front(s) \in Seq(S) /\ Last(s) \in S /\ Len(Front(s)) = Len(s) - 1
      /\ Last(s) = s[Len(s)] /\ \A i \in 1 .. Len(s) - 1 : Front(s)[i] = s[i]
  BY <1>1, <1>2, FrontIs
<1>4. IsList(Front(s))
  BY <1>3, ListOf
<1> DEFINE f == Front(s)
           l == Last(s)
<1>5. f \in Seq(S) /\ l \in S /\ Len(f) = Len(s) - 1 /\ l = s[Len(s)]
      /\ \A i \in 1 .. Len(s) - 1 : f[i] = s[i]
  BY <1>3
<1> HIDE DEF f, l
<1>6. Append(f, l) \in Seq(S) /\ Len(Append(f, l)) = Len(f) + 1
      /\ (\A i \in 1 .. Len(f) : Append(f, l)[i] = f[i]) /\ Append(f, l)[Len(f) + 1] = l
  BY <1>5, OneName
<1>7. s = Append(f, l)
  <2>1. Len(Append(f, l)) = Len(s)
    BY <1>2, <1>5, <1>6
  <2>2. ASSUME NEW i \in 1 .. Len(s) PROVE Append(f, l)[i] = s[i]
    BY <1>2, <1>5, <1>6
  <2>3. QED  BY <1>1, <1>6, <2>1, <2>2
<1>8. QED  BY <1>2, <1>3, <1>4, <1>7 DEF f, l

\* The last of one more.
LEMMA LastIs ==
  ASSUME NEW s, IsList(s), NEW x
  PROVE  /\ Last(Append(s, x)) = x /\ Front(Append(s, x)) = s
         /\ IsList(Append(s, x)) /\ Append(s, x) # <<>>
<1> DEFINE u == Append(s, x)
<1>1. /\ Len(s) \in Nat /\ IsList(u) /\ Len(u) = Len(s) + 1
      /\ u[Len(s) + 1] = x /\ \A i \in 1 .. Len(s) : u[i] = s[i]
  BY OneMoreIs
<1>2. u = Append(s, x)
  OBVIOUS
<1> HIDE DEF u
<1>3. u # <<>>
  BY <1>1
<1>4. IsList(Front(u)) /\ u = Append(Front(u), Last(u))
  BY <1>1, <1>3, SplitIs
<1> DEFINE f == Front(u)
           l == Last(u)
<1>5. IsList(f) /\ Append(f, l) = Append(s, x)
  BY <1>2, <1>4
<1> HIDE DEF f, l
<1>6. f = s /\ l = x
  BY <1>5, SameLists
<1>7. QED  BY <1>1, <1>3, <1>6 DEF f, l, u

\* s is f and x.
Extended(s, f, n, x) ==
  /\ IsList(s) /\ IsList(f) /\ n \in Nat /\ Len(f) = n /\ Len(s) = n + 1
  /\ x = s[n + 1] /\ \A i \in 1 .. n : f[i] = s[i]

\* One more component is one more of what is named, if it is named.
LEMMA NamedMore ==
  ASSUME NEW s, NEW f, NEW n, NEW x, Extended(s, f, n, x)
  PROVE  Named(s) = IF x # "" THEN Append(Named(f), x) ELSE Named(f)
<1> DEFINE S == Range(s) \ {""}
           R == Range(f) \ {""}
<1>1. /\ IsList(s) /\ IsList(f) /\ n \in Nat /\ Len(f) = n /\ Len(s) = n + 1
      /\ x = s[n + 1] /\ \A i \in 1 .. n : f[i] = s[i]
  BY DEF Extended
<1>2. s \in Seq(Range(s)) /\ f \in Seq(Range(f)) /\ n + 1 \in 1 .. n + 1 /\ n + 1 - 1 = n
  BY <1>1 DEF IsList
<1>3. /\ \A i \in 1 .. n + 1 : s[i] \in S <=> s[i] # ""
      /\ \A i \in 1 .. n : f[i] \in R <=> f[i] # ""
  <2>1. DOMAIN s = 1 .. n + 1 /\ DOMAIN f = 1 .. n
    BY <1>1, ListLength
  <2>2. QED  BY <1>1, <2>1 DEF Range
<1> HIDE DEF S, R
<1>4. PICK a : Left(s, S, Range(s), a) /\ Only(s, S) = a[Len(s)]
  BY <1>2, OnlyIs
<1>5. PICK b : Left(f, R, Range(f), b) /\ Only(f, R) = b[Len(f)]
  BY <1>2, OnlyIs
<1>6. /\ a[0] = <<>> /\ b[0] = <<>>
      /\ \A k \in 1 .. n + 1 : a[k] = IF s[k] \in S THEN Append(a[k - 1], s[k]) ELSE a[k - 1]
      /\ \A k \in 1 .. n : b[k] = IF f[k] \in R THEN Append(b[k - 1], f[k]) ELSE b[k - 1]
  BY <1>1, <1>4, <1>5 DEF Left
<1> DEFINE Q == {k \in 0 .. n : a[k] = b[k]}
<1>7. 0 .. n \subseteq Q
  <2>1. 0 \in Q
    BY <1>1, <1>6
  <2>2. ASSUME NEW k \in 1 .. n, k - 1 \in Q PROVE k \in Q
    <3>1. a[k - 1] = b[k - 1] /\ f[k] = s[k] /\ k \in 1 .. n + 1 /\ k \in 0 .. n
      BY <1>1, <2>2
    <3>2. s[k] \in S <=> f[k] \in R
      BY <1>3, <3>1
    <3>3. /\ a[k] = IF s[k] \in S THEN Append(a[k - 1], s[k]) ELSE a[k - 1]
          /\ b[k] = IF f[k] \in R THEN Append(b[k - 1], f[k]) ELSE b[k - 1]
      BY <1>6, <3>1
    <3>4. a[k] = b[k]
      BY <3>1, <3>2, <3>3
    <3>5. QED  BY <3>1, <3>4
  <2> HIDE DEF Q
  <2>3. QED  BY <1>1, <2>1, <2>2, IntervalInduction
<1>8. a[n] = b[n]
  <2>1. n \in 0 .. n
    BY <1>1
  <2>2. QED  BY <1>7, <2>1
<1>9. x \in S <=> x # ""
  BY <1>1, <1>2, <1>3
<1>10. a[n + 1] = IF x \in S THEN Append(a[n], x) ELSE a[n]
  BY <1>1, <1>2, <1>6
<1>11. Named(s) = a[n + 1] /\ Named(f) = b[n]
  BY <1>1, <1>4, <1>5 DEF Named, S, R
<1>12. QED  BY <1>8, <1>9, <1>10, <1>11

\* What is named of a path is what is named before the last, and the last if it is named.
LEMMA NamedLast ==
  ASSUME NEW s, IsList(s), s # <<>>
  PROVE  Named(s) = IF Last(s) # "" THEN Append(Named(Front(s)), Last(s)) ELSE Named(Front(s))
<1> DEFINE f == Front(s)
           x == Last(s)
<1>1. PICK n \in Nat : n = Len(s) - 1
  BY SplitIs
<1>2. Extended(s, f, n, x)
  BY <1>1, SplitIs DEF Extended
<1> HIDE DEF f, x
<1>3. Named(s) = IF x # "" THEN Append(Named(f), x) ELSE Named(f)
  BY <1>2, NamedMore
<1>4. QED  BY <1>3 DEF f, x

\* Where a tag leads, and whether it brings a file of ours.
Lane(g) == IF g.tag = "folder" THEN g.path ELSE Front(g.path)
Kept(g) == g.tag = "x" /\ Last(g.path) # "" /\ Beside(g.path)
More(F, g) == {f \in {<<g.path, g.content>>} : Kept(g) /\ g.path \notin Paths(F)}
IsTag(g) == IsList(g.path) /\ (g.tag = "folder" \/ (g.tag = "x" /\ g.path # <<>>))

\* What a tag is to bring can be brought.
Fits(g, D, F) ==
  /\ \A p \in Nice(Lane(g)) : p \notin Paths(F) /\ \A j \in DOMAIN p : San[p[j]] = p[j]
  /\ Kept(g) => /\ g.path \notin D \union Nice(Lane(g))
                /\ \A j \in DOMAIN g.path : San[g.path[j]] = g.path[j]

\* What applying a tag does to ours.
LEMMA TagAdds ==
  ASSUME NEW t, NEW D, NEW F, Bears(t, D, F), NEW g, IsTag(g), Fits(g, D, F)
  PROVE  Bears(ApplyTag(t, g), D \union Nice(Lane(g)), F \union More(F, g))
<1> DEFINE w == Lane(g)
           r == GetOrCreatePath(t, w)
           E == D \union Nice(w)
<1>1. IsList(w)
  BY SplitIs DEF IsTag, Lane
<1>2. Bears(r.tree, E, F) /\ At(r.tree, r.ino, w)
  <2>1. \A p \in Nice(w) : p \notin Paths(F) /\ \A j \in DOMAIN p : San[p[j]] = p[j]
    BY DEF Fits
  <2> HIDE DEF w
  <2>2. QED  BY <1>1, <2>1, MakeWay
<1>3. CASE g.tag = "folder"
  <2>1. ApplyTag(t, g) = r.tree
    BY <1>3 DEF ApplyTag, Lane
  <2>2. More(F, g) = {}
    BY <1>3 DEF More, Kept
  <2> HIDE DEF r, w
  <2>3. F \union More(F, g) = F
    BY <2>2
  <2>4. QED  BY <1>2, <2>1, <2>3 DEF w
<1>4. CASE g.tag = "x"
  <2> DEFINE n == Last(g.path)
             q == g.path
             c == g.content
             u == Put(r.tree, r.ino, n, c)
  <2>1. w = Front(q) /\ q = Append(w, n) /\ n = q[Len(q)] /\ Len(q) \in DOMAIN q
    <3>1. w = Front(q) /\ IsList(q) /\ q # <<>>
      BY <1>4 DEF IsTag, Lane
    <3> HIDE DEF w, q
    <3>2. q = Append(w, Last(q)) /\ Last(q) = q[Len(q)] /\ Len(q) \in Nat /\ Len(q) >= 1
      BY <3>1, SplitIs
    <3>3. Len(q) \in DOMAIN q
      BY <3>1, <3>2, ListLength
    <3>4. QED  BY <3>1, <3>2, <3>3 DEF q
  <2>2. ApplyTag(t, g) = IF n = "" THEN r.tree ELSE u
    <3>1. w = Front(g.path)
      BY <2>1
    <3> HIDE DEF w
    <3>2. QED  BY <1>4, <3>1 DEF ApplyTag, Put
  <2>3. Kept(g) <=> n # "" /\ Beside(q)
    BY <1>4 DEF Kept
  <2>4. CASE n = ""
    <3>1. More(F, g) = {}
      BY <2>3, <2>4 DEF More
    <3> HIDE DEF r, w, n, q
    <3>2. F \union More(F, g) = F
      BY <3>1
    <3>3. QED  BY <1>2, <2>2, <2>4, <3>2 DEF w
  <2>5. CASE n # ""
    <3>1. Beside(q) => San[n] = n /\ q \notin E
      BY <2>1, <2>3, <2>5 DEF Fits
    <3>2. More(F, g) = New(F, q, c)
      BY <2>3, <2>5 DEF More, New
    <3>3. q = Append(w, n)
      BY <2>1
    <3> HIDE DEF r, w, n, q, E, c
    <3>4. Bears(u, E, F \union New(F, q, c))
      BY <1>1, <1>2, <3>1, <3>3, PutFile
    <3>5. QED  BY <2>2, <2>5, <3>2, <3>4 DEF E, w
  <2>6. QED  BY <2>4, <2>5
<1>5. QED  BY <1>3, <1>4 DEF IsTag

\* What the first k of the tags bring: directories, paths of files, files.
Lanes(L, k) == UNION {Nice(Lane(L[i])) : i \in 1 .. k}
Roads(L, k) == {L[i].path : i \in {j \in 1 .. k : Kept(L[j])}}
First(L, i) == Kept(L[i]) /\ \A h \in 1 .. i - 1 : ~(Kept(L[h]) /\ L[h].path = L[i].path)
Laid(L, k)  == {<<L[i].path, L[i].content>> : i \in {j \in 1 .. k : First(L, j)}}

\* One tag more.
LEMMA LanesStep ==
  ASSUME NEW L, NEW k \in Nat, k >= 1
  PROVE  /\ Lanes(L, k) = Lanes(L, k - 1) \union Nice(Lane(L[k]))
         /\ Roads(L, k) = Roads(L, k - 1) \union {p \in {L[k].path} : Kept(L[k])}
         /\ Laid(L, k) = Laid(L, k - 1)
              \union {f \in {<<L[k].path, L[k].content>>} :
                        Kept(L[k]) /\ L[k].path \notin Roads(L, k - 1)}
<1>1. \A i : i \in 1 .. k <=> i \in 1 .. k - 1 \/ i = k
  OBVIOUS
<1>2. Lanes(L, k) = Lanes(L, k - 1) \union Nice(Lane(L[k]))
  BY <1>1 DEF Lanes
<1>3. Roads(L, k) = Roads(L, k - 1) \union {p \in {L[k].path} : Kept(L[k])}
  BY <1>1 DEF Roads
<1>4. First(L, k) <=> Kept(L[k]) /\ L[k].path \notin Roads(L, k - 1)
  BY DEF First, Roads
<1>5. Laid(L, k) = Laid(L, k - 1) \union {f \in {<<L[k].path, L[k].content>>} : First(L, k)}
  BY <1>1 DEF Laid
<1>6. QED  BY <1>2, <1>3, <1>4, <1>5

\* Nothing is brought by no tag.
LEMMA LanesNone == \A L : Lanes(L, 0) = {} /\ Roads(L, 0) = {} /\ Laid(L, 0) = {}
BY DEF Lanes, Roads, Laid

\* The paths of the files are those that were to be.
LEMMA LaidPaths ==
  ASSUME NEW L, NEW n \in Nat
  PROVE  Paths(Laid(L, n)) = Roads(L, n)
<1> DEFINE Q == {k \in 0 .. n : Paths(Laid(L, k)) = Roads(L, k)}
<1>1. 0 \in Q
  BY LanesNone DEF Paths
<1>2. ASSUME NEW k \in 1 .. n, k - 1 \in Q PROVE k \in Q
  <2> DEFINE q == L[k].path
             c == L[k].content
             K == Kept(L[k])
             A == Laid(L, k - 1)
             B == Roads(L, k - 1)
  <2>1. Paths(A) = B /\ k \in 0 .. n /\ k \in Nat /\ k >= 1
    BY <1>2
  <2>2. /\ Roads(L, k) = B \union {p \in {q} : K}
        /\ Laid(L, k) = A \union {f \in {<<q, c>>} : K /\ q \notin B}
    BY <2>1, LanesStep
  <2> HIDE DEF q, c, K, A, B
  <2>3. CASE K /\ q \notin B
    <3>1. Laid(L, k) = A \union {<<q, c>>} /\ Roads(L, k) = B \union {q}
      BY <2>2, <2>3
    <3>2. Paths(A \union {<<q, c>>}) = Paths(A) \union {q}
      <4>1. <<q, c>>[1] = q
        OBVIOUS
      <4>2. \A f : f \in A \union {<<q, c>>} <=> f \in A \/ f = <<q, c>>
        OBVIOUS
      <4>3. QED  BY <4>1, <4>2 DEF Paths
    <3>3. QED  BY <2>1, <3>1, <3>2
  <2>4. CASE ~(K /\ q \notin B)
    <3>1. Laid(L, k) = A /\ Roads(L, k) = B
      BY <2>2, <2>4
    <3>2. QED  BY <2>1, <3>1
  <2>5. QED  BY <2>3, <2>4
<1> HIDE DEF Q
<1>3. 0 .. n \subseteq Q
  BY <1>1, <1>2, IntervalInduction
<1>4. n \in Q
  BY <1>3
<1>5. QED  BY <1>4 DEF Q

\* The tags are such as a mount publishes.
Sound(L, n) ==
  /\ \A i \in 1 .. n : IsTag(L[i])
  /\ \A p \in Lanes(L, n) \union Roads(L, n) : \A j \in DOMAIN p : San[p[j]] = p[j]
  /\ Lanes(L, n) \cap Roads(L, n) = {}

\* What was brought so far is among what is brought.
LEMMA LanesGrow ==
  ASSUME NEW L, NEW n \in Nat, NEW k \in 1 .. n
  PROVE  /\ Lanes(L, k - 1) \subseteq Lanes(L, n) /\ Nice(Lane(L[k])) \subseteq Lanes(L, n)
         /\ Roads(L, k - 1) \subseteq Roads(L, n) /\ (Kept(L[k]) => L[k].path \in Roads(L, n))
<1>1. \A i \in 1 .. k - 1 : i \in 1 .. n
  OBVIOUS
<1>2. Lanes(L, k - 1) \subseteq Lanes(L, n) /\ Nice(Lane(L[k])) \subseteq Lanes(L, n)
  BY <1>1 DEF Lanes
<1>3. Roads(L, k - 1) \subseteq Roads(L, n) /\ (Kept(L[k]) => L[k].path \in Roads(L, n))
  BY <1>1 DEF Roads
<1>4. QED  BY <1>2, <1>3

\* What the loop over the tags brings.
Applies(t, L, n, u) ==
  /\ u[0] = t
  /\ \A k \in 1 .. n : u[k] = ApplyTag(u[k - 1], L[k])

\* After k tags there are the directories on their ways, and the first file at each path.
LEMMA LoopAdds ==
  ASSUME NEW t, Bears(t, {}, {}), NEW L, NEW n \in Nat, Sound(L, n), NEW u, Applies(t, L, n, u)
  PROVE  Bears(u[n], Lanes(L, n), Laid(L, n))
<1> DEFINE Fine(k) == Bears(u[k], Lanes(L, k), Laid(L, k))
           Q == {k \in 0 .. n : Fine(k)}
<1>1. 0 \in Q
  <2>1. Fine(0)
    BY LanesNone DEF Applies
  <2> HIDE DEF Fine
  <2>2. QED  BY <2>1
<1>2. ASSUME NEW k \in 1 .. n, k - 1 \in Q PROVE k \in Q
  <2> DEFINE v == u[k - 1]
             g == L[k]
             D == Lanes(L, k - 1)
             F == Laid(L, k - 1)
             R == Roads(L, k - 1)
  <2>1. k \in 0 .. n /\ k \in Nat /\ k >= 1 /\ k - 1 \in Nat /\ u[k] = ApplyTag(v, g)
    BY DEF Applies
  <2>2. Bears(v, D, F)
    <3>1. Fine(k - 1)
      <4> HIDE DEF Fine
      <4> QED  BY <1>2
    <3>2. QED  BY <3>1
  <2>3. IsTag(g)
    BY DEF Sound
  <2>4. Paths(F) = R
    BY <2>1, LaidPaths
  <2>5. /\ Lanes(L, k) = D \union Nice(Lane(g))
        /\ Laid(L, k) = F \union {f \in {<<g.path, g.content>>} : Kept(g) /\ g.path \notin R}
    BY <2>1, LanesStep
  <2>6. /\ D \subseteq Lanes(L, n) /\ Nice(Lane(g)) \subseteq Lanes(L, n)
        /\ R \subseteq Roads(L, n) /\ (Kept(g) => g.path \in Roads(L, n))
    BY LanesGrow
  <2> HIDE DEF v, g, D, F, R
  <2>7. Fits(g, D, F)
    BY <2>4, <2>6 DEF Fits, Sound
  <2>8. Bears(ApplyTag(v, g), D \union Nice(Lane(g)), F \union More(F, g))
    BY <2>2, <2>3, <2>7, TagAdds
  <2>9. Laid(L, k) = F \union More(F, g)
    BY <2>4, <2>5 DEF More
  <2>10. Fine(k)
    BY <2>1, <2>5, <2>8, <2>9
  <2> HIDE DEF Fine
  <2>11. QED  BY <2>1, <2>10
<1> HIDE DEF Q
<1>3. 0 .. n \subseteq Q
  BY <1>1, <1>2, IntervalInduction
<1>4. n \in Q
  BY <1>3
<1> HIDE DEF Fine
<1>5. Fine(n)
  BY <1>4 DEF Q
<1>6. QED  BY <1>5 DEF Fine

\* Which of a list are left.
Takes(s, S, o, q) ==
  /\ IsList(o) /\ Len(o) \in Nat
  /\ \A j \in 1 .. Len(o) : q[j] \in 1 .. Len(s) /\ o[j] = s[q[j]] /\ s[q[j]] \in S
  /\ \A i, j \in 1 .. Len(o) : i < j => q[i] < q[j]
  /\ \A k \in 1 .. Len(s) : s[k] \in S => \E j \in 1 .. Len(o) : q[j] = k

\* Those of a set are left, in their order.
LEMMA TakesIs ==
  ASSUME NEW s, IsList(s), NEW S
  PROVE  \E q : Takes(s, S, Only(s, S), q)
<1> DEFINE o == Only(s, S)
<1>1. s \in Seq(Range(s)) /\ IsList(o) /\ Len(o) \in Nat /\ Len(s) \in Nat
  BY OnlyIsList, ListLength DEF IsList
<1>2. PICK q : Picks(s, S, o, Len(s), q)
  BY <1>1, OnlyPicks
<1> HIDE DEF o
<1>3. /\ q \in [1 .. Len(o) -> 1 .. Len(s)]
      /\ \A i, j \in 1 .. Len(o) : i < j => q[i] < q[j]
      /\ \A i \in 1 .. Len(o) : o[i] = s[q[i]]
      /\ \A i \in 1 .. Len(s) : s[i] \in S <=> \E j \in 1 .. Len(o) : q[j] = i
  BY <1>2 DEF Picks
<1>4. ASSUME NEW j \in 1 .. Len(o)
      PROVE  q[j] \in 1 .. Len(s) /\ o[j] = s[q[j]] /\ s[q[j]] \in S
  <2>1. q[j] \in 1 .. Len(s) /\ o[j] = s[q[j]]
    BY <1>3
  <2>2. s[q[j]] \in S
    BY <1>3, <2>1
  <2>3. QED  BY <2>1, <2>2
<1>5. Takes(s, S, o, q)
  BY <1>1, <1>3, <1>4 DEF Takes
<1>6. QED  BY <1>5 DEF o

\* What is left of what was left.
LEMMA TakesTwice ==
  ASSUME NEW s, NEW S, NEW o, NEW a, Takes(s, S, o, a), NEW R, NEW u, NEW b, Takes(o, R, u, b)
  PROVE  Takes(s, S \cap R, u, [j \in 1 .. Len(u) |-> a[b[j]]])
<1> DEFINE q == [j \in 1 .. Len(u) |-> a[b[j]]]
<1>1. /\ IsList(u) /\ Len(u) \in Nat
      /\ \A j \in 1 .. Len(u) : b[j] \in 1 .. Len(o) /\ u[j] = o[b[j]] /\ o[b[j]] \in R
      /\ \A i, j \in 1 .. Len(u) : i < j => b[i] < b[j]
      /\ \A k \in 1 .. Len(o) : o[k] \in R => \E j \in 1 .. Len(u) : b[j] = k
  BY DEF Takes
<1>2. /\ \A j \in 1 .. Len(o) : a[j] \in 1 .. Len(s) /\ o[j] = s[a[j]] /\ s[a[j]] \in S
      /\ \A i, j \in 1 .. Len(o) : i < j => a[i] < a[j]
      /\ \A k \in 1 .. Len(s) : s[k] \in S => \E j \in 1 .. Len(o) : a[j] = k
  BY DEF Takes
<1>3. \A j \in 1 .. Len(u) : q[j] = a[b[j]]
  OBVIOUS
<1> HIDE DEF q
<1>4. ASSUME NEW j \in 1 .. Len(u)
      PROVE  q[j] \in 1 .. Len(s) /\ u[j] = s[q[j]] /\ s[q[j]] \in S \cap R
  <2>1. b[j] \in 1 .. Len(o) /\ u[j] = o[b[j]] /\ o[b[j]] \in R
    BY <1>1
  <2>2. a[b[j]] \in 1 .. Len(s) /\ o[b[j]] = s[a[b[j]]] /\ s[a[b[j]]] \in S
    BY <1>2, <2>1
  <2>3. QED  BY <1>3, <2>1, <2>2
<1>5. ASSUME NEW i \in 1 .. Len(u), NEW j \in 1 .. Len(u), i < j PROVE q[i] < q[j]
  <2>1. b[i] \in 1 .. Len(o) /\ b[j] \in 1 .. Len(o) /\ b[i] < b[j]
    BY <1>1, <1>5
  <2>2. a[b[i]] < a[b[j]]
    BY <1>2, <2>1
  <2>3. QED  BY <1>3, <2>2
<1>6. ASSUME NEW k \in 1 .. Len(s), s[k] \in S \cap R PROVE \E j \in 1 .. Len(u) : q[j] = k
  <2>1. PICK l \in 1 .. Len(o) : a[l] = k
    BY <1>2, <1>6
  <2>2. o[l] \in R
    BY <1>2, <1>6, <2>1
  <2>3. PICK j \in 1 .. Len(u) : b[j] = l
    BY <1>1, <2>1, <2>2
  <2>4. QED  BY <1>3, <2>1, <2>3
<1>7. Takes(s, S \cap R, u, q)
  BY <1>1, <1>4, <1>5, <1>6 DEF Takes
<1>8. QED  BY <1>7 DEF q

\* The tags of an event that are used, and what they are turned into.
Used(g) == \/ g[1] = "folder" /\ Len(g) >= 2
           \/ g[1] = "x" /\ Len(g) >= 4 /\ Named(g[3]) # <<>>
Turned(g) ==
  IF g[1] = "folder" THEN [tag |-> "folder", path |-> Named(g[2]), content |-> None]
  ELSE [tag |-> "x", path |-> Append(Named(Front(g[3])), Last(g[3])), content |-> g[2]]

Turns(e, A, q) ==
  /\ IsList(A) /\ Len(A) \in Nat
  /\ \A j \in 1 .. Len(A) : q[j] \in 1 .. Len(e) /\ A[j] = Turned(e[q[j]]) /\ Used(e[q[j]])
  /\ \A i, j \in 1 .. Len(A) : i < j => q[i] < q[j]
  /\ \A k \in 1 .. Len(e) : Used(e[k]) => \E j \in 1 .. Len(A) : q[j] = k

\* All that are used are turned, in their order.
LEMMA TurnedIs ==
  ASSUME NEW e, IsList(e), \A k \in DOMAIN e : Len(e[k]) \in Nat
  PROVE  \E q : Turns(e, Applied(EventToTags(e)), q)
<1> DEFINE S == {g \in Range(e) : Len(g) >= 1 /\ g[1] \in {"folder", "x"}}
           o == Only(e, S)
           R == {g \in Range(o) : Used(g)}
           u == Only(o, R)
           A == [k \in DOMAIN u |-> Turned(u[k])]
<1>1. Applied(EventToTags(e)) = A
  <2>1. EventToTags(e) = o
    BY DEF EventToTags
  <2> HIDE DEF o
  <2>2. Applied(o) = A
    BY DEF Applied, Used, Turned
  <2>3. QED  BY <2>1, <2>2
<1>2. DOMAIN e = 1 .. Len(e) /\ Len(e) \in Nat /\ IsList(o) /\ Range(o) = Range(e) \cap S
  BY ListLength, OnlyIsList
<1>3. \A k \in 1 .. Len(e) : e[k] \in S \cap R <=> Used(e[k])
  <2>1. ASSUME NEW k \in 1 .. Len(e) PROVE e[k] \in S \cap R <=> Used(e[k])
    <3>1. e[k] \in Range(e) /\ Len(e[k]) \in Nat
      BY <1>2 DEF Range
    <3>2. Used(e[k]) => e[k] \in S
      BY <3>1 DEF Used
    <3> HIDE DEF S, o
    <3>3. e[k] \in S => e[k] \in Range(o)
      BY <1>2, <3>1
    <3>4. QED  BY <3>2, <3>3
  <2>2. QED  BY <2>1
<1> HIDE DEF S, R
<1>4. PICK a : Takes(e, S, o, a)
  BY TakesIs
<1> HIDE DEF o
<1>5. PICK b : Takes(o, R, u, b)
  BY <1>2, TakesIs
<1> HIDE DEF u
<1> DEFINE q == [j \in 1 .. Len(u) |-> a[b[j]]]
<1>6. Takes(e, S \cap R, u, q)
  BY <1>4, <1>5, TakesTwice
<1> HIDE DEF q
<1>7. /\ IsList(u) /\ Len(u) \in Nat
      /\ \A j \in 1 .. Len(u) : q[j] \in 1 .. Len(e) /\ u[j] = e[q[j]] /\ e[q[j]] \in S \cap R
      /\ \A i, j \in 1 .. Len(u) : i < j => q[i] < q[j]
      /\ \A k \in 1 .. Len(e) : e[k] \in S \cap R => \E j \in 1 .. Len(u) : q[j] = k
  BY <1>6 DEF Takes
<1>8. IsList(A) /\ Len(A) = Len(u) /\ \A j \in 1 .. Len(u) : A[j] = Turned(u[j])
  <2>1. DOMAIN u = 1 .. Len(u)
    BY <1>7, ListLength
  <2>2. A \in Seq(Range(A)) /\ Len(A) = Len(u)
    BY <1>7, <2>1 DEF Range
  <2>3. QED  BY <2>1, <2>2 DEF IsList
<1> HIDE DEF A
<1>9. ASSUME NEW j \in 1 .. Len(u)
      PROVE  q[j] \in 1 .. Len(e) /\ A[j] = Turned(e[q[j]]) /\ Used(e[q[j]])
  BY <1>3, <1>7, <1>8
<1>10. Turns(e, A, q)
  BY <1>3, <1>7, <1>8, <1>9 DEF Turns
<1>11. QED  BY <1>1, <1>10

\* The tags in the order they are applied in.
Kind(A, k) == Only(A, {g \in Range(A) : g.tag = k})
Queue(A)   == Kind(A, "folder") \o Kind(A, "x")

Indexed(e, L, ix) ==
  /\ Len(L) \in Nat
  /\ \A i \in 1 .. Len(L) : ix[i] \in 1 .. Len(e) /\ L[i] = Turned(e[ix[i]]) /\ Used(e[ix[i]])
  /\ \A i, j \in 1 .. Len(L) : i < j /\ L[i].tag = "x" /\ L[j].tag = "x" => ix[i] < ix[j]
  /\ \A k \in 1 .. Len(e) : Used(e[k]) => \E i \in 1 .. Len(L) : ix[i] = k

\* All that are used are applied, those of files in their order.
LEMMA IndexIs ==
  ASSUME NEW e, NEW A, NEW q, Turns(e, A, q)
  PROVE  \E ix : Indexed(e, Queue(A), ix)
<1> DEFINE S(k) == {g \in Range(A) : g.tag = k}
           f == Kind(A, "folder")
           x == Kind(A, "x")
           L == Queue(A)
<1>1. /\ IsList(A) /\ Len(A) \in Nat
      /\ \A j \in 1 .. Len(A) : q[j] \in 1 .. Len(e) /\ A[j] = Turned(e[q[j]]) /\ Used(e[q[j]])
      /\ \A i, j \in 1 .. Len(A) : i < j => q[i] < q[j]
      /\ \A k \in 1 .. Len(e) : Used(e[k]) => \E j \in 1 .. Len(A) : q[j] = k
  BY DEF Turns
<1>2. \A j \in 1 .. Len(A) : \A k : A[j] \in S(k) <=> A[j].tag = k
  BY <1>1, ListLength DEF Range
<1>3. \A j \in 1 .. Len(A) : A[j].tag \in {"folder", "x"}
  <2>1. ASSUME NEW g PROVE Turned(g).tag \in {"folder", "x"}
    <3>1. CASE g[1] = "folder"
      BY <3>1 DEF Turned
    <3>2. CASE g[1] # "folder"
      BY <3>2 DEF Turned
    <3>3. QED  BY <3>1, <3>2
  <2>2. QED  BY <1>1, <2>1
<1>4. PICK a : Takes(A, S("folder"), f, a)
  BY <1>1, TakesIs DEF Kind
<1>5. PICK b : Takes(A, S("x"), x, b)
  BY <1>1, TakesIs DEF Kind
<1> HIDE DEF S, f, x
<1>6. /\ IsList(f) /\ Len(f) \in Nat
      /\ \A j \in 1 .. Len(f) : a[j] \in 1 .. Len(A) /\ f[j] = A[a[j]] /\ A[a[j]].tag = "folder"
      /\ \A i, j \in 1 .. Len(f) : i < j => a[i] < a[j]
      /\ \A k \in 1 .. Len(A) : A[k].tag = "folder" => \E j \in 1 .. Len(f) : a[j] = k
  BY <1>2, <1>4 DEF Takes
<1>7. /\ IsList(x) /\ Len(x) \in Nat
      /\ \A j \in 1 .. Len(x) : b[j] \in 1 .. Len(A) /\ x[j] = A[b[j]] /\ A[b[j]].tag = "x"
      /\ \A i, j \in 1 .. Len(x) : i < j => b[i] < b[j]
      /\ \A k \in 1 .. Len(A) : A[k].tag = "x" => \E j \in 1 .. Len(x) : b[j] = k
  BY <1>2, <1>5 DEF Takes
<1> DEFINE m == Len(f)
           c(i) == IF i <= m THEN a[i] ELSE b[i - m]
           ix == [i \in 1 .. Len(L) |-> q[c(i)]]
<1>8. Len(L) = m + Len(x) /\ \A i \in 1 .. Len(L) : L[i] = IF i <= m THEN f[i] ELSE x[i - m]
  <2>1. L = f \o x
    BY DEF Queue, f, x
  <2>2. f \in Seq(Range(f)) /\ x \in Seq(Range(x))
    BY <1>6, <1>7 DEF IsList
  <2> HIDE DEF L
  <2>3. QED  BY <2>1, <2>2
<1>9. \A i \in 1 .. Len(L) : ix[i] = q[c(i)]
  OBVIOUS
<1> HIDE DEF L, m, ix
<1>10. ASSUME NEW i \in 1 .. Len(L)
       PROVE  c(i) \in 1 .. Len(A) /\ L[i] = A[c(i)] /\ (L[i].tag = "x" <=> ~(i <= m))
  <2>1. CASE i <= m
    <3>1. i \in 1 .. Len(f)
      BY <1>6, <1>8, <2>1 DEF m
    <3>2. QED  BY <1>6, <1>8, <2>1, <3>1
  <2>2. CASE ~(i <= m)
    <3>1. i - m \in 1 .. Len(x)
      BY <1>6, <1>7, <1>8, <2>2 DEF m
    <3>2. QED  BY <1>7, <1>8, <2>2, <3>1
  <2>3. QED  BY <2>1, <2>2
<1>11. ASSUME NEW i \in 1 .. Len(L)
       PROVE  ix[i] \in 1 .. Len(e) /\ L[i] = Turned(e[ix[i]]) /\ Used(e[ix[i]])
  <2> HIDE DEF c
  <2>1. c(i) \in 1 .. Len(A) /\ L[i] = A[c(i)] /\ ix[i] = q[c(i)]
    BY <1>9, <1>10
  <2>2. QED  BY <1>1, <2>1
<1>12. ASSUME NEW i \in 1 .. Len(L), NEW j \in 1 .. Len(L), i < j, L[i].tag = "x", L[j].tag = "x"
       PROVE  ix[i] < ix[j]
  <2>1. ~(i <= m) /\ ~(j <= m)
    BY <1>10, <1>12
  <2>2. i - m \in 1 .. Len(x) /\ j - m \in 1 .. Len(x) /\ i - m < j - m
    BY <1>6, <1>7, <1>8, <1>12, <2>1 DEF m
  <2>3. b[i - m] < b[j - m] /\ c(i) = b[i - m] /\ c(j) = b[j - m]
    BY <1>7, <2>1, <2>2
  <2> HIDE DEF c
  <2>4. c(i) \in 1 .. Len(A) /\ c(j) \in 1 .. Len(A) /\ c(i) < c(j)
    BY <1>10, <2>3
  <2>5. QED  BY <1>1, <1>9, <2>4
<1>13. ASSUME NEW k \in 1 .. Len(e), Used(e[k]) PROVE \E i \in 1 .. Len(L) : ix[i] = k
  <2>1. PICK l \in 1 .. Len(A) : q[l] = k
    BY <1>1, <1>13
  <2>2. \E i \in 1 .. Len(L) : c(i) = l
    <3>1. CASE A[l].tag = "folder"
      <4>1. PICK j \in 1 .. Len(f) : a[j] = l
        BY <1>6, <3>1
      <4>2. j \in 1 .. Len(L) /\ j <= m
        BY <1>6, <1>7, <1>8, <4>1 DEF m
      <4>3. c(j) = l
        BY <4>1, <4>2
      <4> HIDE DEF c
      <4>4. QED  BY <4>2, <4>3
    <3>2. CASE A[l].tag = "x"
      <4>1. PICK j \in 1 .. Len(x) : b[j] = l
        BY <1>7, <3>2
      <4>2. PICK i \in 1 .. Len(L) : ~(i <= m) /\ i - m = j
        <5> DEFINE i == j + m
        <5>1. i \in 1 .. Len(L) /\ ~(i <= m) /\ i - m = j
          BY <1>6, <1>7, <1>8, <4>1 DEF m
        <5> HIDE DEF i
        <5>2. QED  BY <5>1
      <4>3. c(i) = l
        BY <4>1, <4>2
      <4> HIDE DEF c
      <4>4. QED  BY <4>2, <4>3
    <3>3. QED  BY <1>3, <3>1, <3>2
  <2> HIDE DEF c
  <2>3. PICK i \in 1 .. Len(L) : c(i) = l
    BY <2>2
  <2>4. QED  BY <1>9, <2>1, <2>3
<1>14. Len(L) \in Nat
  BY <1>6, <1>7, <1>8 DEF m
<1>15. Indexed(e, L, ix)
  BY <1>11, <1>12, <1>13, <1>14 DEF Indexed
<1>16. QED  BY <1>15 DEF L

\* The tags are applied one after the other.
LEMMA QueueApplies ==
  ASSUME NEW t, NEW A, Len(Queue(A)) \in Nat
  PROVE  \E u : Applies(t, Queue(A), Len(Queue(A)), u) /\ ApplyPersisted(t, A) = u[Len(Queue(A))]
<1> DEFINE L == Queue(A)
           n == Len(L)
           base == t
           Step(v, k) == ApplyTag(v, L[k])
           Eq(f) == f = [k \in 0 .. n |-> IF k = 0 THEN base ELSE Step(f[k - 1], k)]
           add == CHOOSE f : Eq(f)
<1>1. ApplyPersisted(t, A) = add[n]
  BY DEF ApplyPersisted, Queue, Kind
<1>2. n \in Nat
  OBVIOUS
<1>3. n = Len(L) /\ base = t /\ \A v, k : Step(v, k) = ApplyTag(v, L[k])
  OBVIOUS
<1> HIDE DEF n, base, Step
<1>5. \E g : Eq(g)
  <2> DEFINE Upto(m) == \E g : g = [k \in 0 .. m |-> IF k = 0 THEN base ELSE Step(g[k - 1], k)]
             R == {m \in 0 .. n : Upto(m)}
  <2>1. 0 \in R
    <3> DEFINE g == [k \in 0 .. 0 |-> base]
    <3>1. g = [k \in 0 .. 0 |-> IF k = 0 THEN base ELSE Step(g[k - 1], k)]
      OBVIOUS
    <3>2. Upto(0)
      <4> HIDE DEF g
      <4> QED  BY <3>1
    <3>3. QED
      <4> HIDE DEF Upto
      <4> QED  BY <1>2, <3>2
  <2>2. ASSUME NEW m \in 1 .. n, m - 1 \in R PROVE m \in R
    <3>1. PICK g : g = [k \in 0 .. m - 1 |-> IF k = 0 THEN base ELSE Step(g[k - 1], k)]
      BY <2>2
    <3> DEFINE h == [k \in 0 .. m |-> IF k = m THEN Step(g[m - 1], m) ELSE g[k]]
    <3>2. \A k \in 0 .. m - 1 : h[k] = g[k] /\ g[k] = IF k = 0 THEN base ELSE Step(g[k - 1], k)
      <4>1. m \in Nat
        BY <1>2
      <4>2. ASSUME NEW k \in 0 .. m - 1 PROVE h[k] = g[k]
        BY <4>1
      <4>3. ASSUME NEW k \in 0 .. m - 1
            PROVE  g[k] = IF k = 0 THEN base ELSE Step(g[k - 1], k)
        <5> HIDE DEF h
        <5> QED  BY <3>1
      <4>4. QED
        <5> HIDE DEF h
        <5> QED  BY <4>2, <4>3
    <3>3. h[m] = Step(h[m - 1], m)
      BY <1>2
    <3>4. ASSUME NEW k \in 0 .. m PROVE h[k] = IF k = 0 THEN base ELSE Step(h[k - 1], k)
      <4>1. CASE k = m
        BY <1>2, <3>3, <4>1
      <4>2. CASE k \in 0 .. m - 1 /\ k # 0
        <5>1. k - 1 \in 0 .. m - 1
          BY <1>2, <4>2
        <5> HIDE DEF h
        <5>2. QED  BY <3>2, <4>2, <5>1
      <4>3. CASE k \in 0 .. m - 1 /\ k = 0
        BY <3>2, <4>3
      <4>4. QED  BY <1>2, <4>1, <4>2, <4>3
    <3>5. h = [k \in 0 .. m |-> h[k]]
      OBVIOUS
    <3>6. Upto(m)
      <4> HIDE DEF h
      <4>1. h = [k \in 0 .. m |-> IF k = 0 THEN base ELSE Step(h[k - 1], k)]
        BY <3>4, <3>5
      <4>2. QED  BY <4>1
    <3>7. QED
      <4> HIDE DEF Upto
      <4> QED  BY <1>2, <3>6
  <2>3. 0 .. n \subseteq R
    <3> HIDE DEF R
    <3> QED  BY <1>2, <2>1, <2>2, IntervalInduction
  <2>4. Upto(n)
    <3> HIDE DEF Upto
    <3> QED  BY <1>2, <2>3
  <2>5. QED  BY <2>4
<1>6. Eq(add)
  <2> HIDE DEF Eq
  <2> QED  BY <1>5
<1>7. add[0] = base /\ \A k \in 1 .. n : add[k] = Step(add[k - 1], k)
  <2> HIDE DEF add
  <2> QED  BY <1>2, <1>6
<1> HIDE DEF add
<1> HIDE DEF L
<1>8. Applies(t, L, Len(L), add) /\ ApplyPersisted(t, A) = add[Len(L)]
  BY <1>1, <1>3, <1>7 DEF Applies
<1>9. QED  BY <1>8 DEF L

\* An event of the drive, as a mount publishes it.
FilePath(e, k) == Named(e[k][3])
FilePaths(e)   == {FilePath(e, k) : k \in FileTags(e)}
Decent(e) ==
  /\ IsList(e) /\ (\A k \in DOMAIN e : Len(e[k]) \in Nat)
  /\ \A k \in FolderTags(e) : IsList(e[k][2])
  /\ \A k \in XTags(e) : IsList(e[k][3]) /\ e[k][3] # <<>>
  /\ \A p \in SavedDirs(e) \union FilePaths(e) : \A j \in DOMAIN p : San[p[j]] = p[j]
  /\ \A j, k \in FileTags(e) :
       /\ FilePath(e, j) \notin SavedDirs(e)
       /\ FilePath(e, j) = FilePath(e, k) => e[j][3] = e[k][3]

\* What the tag of a directory is turned into.
LEMMA FolderTurned ==
  ASSUME NEW g, g[1] = "folder", IsList(g[2])
  PROVE  LET r == Turned(g) IN
         IsTag(r) /\ r.tag = "folder" /\ Lane(r) = Named(g[2]) /\ ~Kept(r)
<1> DEFINE r == Turned(g)
<1>1. r.tag = "folder" /\ r.path = Named(g[2])
  BY DEF Turned
<1>2. IsList(Named(g[2]))
  BY NamedIs
<1> HIDE DEF r
<1>3. QED  BY <1>1, <1>2 DEF r, IsTag, Lane, Kept

\* What the tag of a file is turned into.
LEMMA FileTurned ==
  ASSUME NEW g, g[1] = "x", IsList(g[3]), g[3] # <<>>
  PROVE  LET r == Turned(g) IN
         /\ IsTag(r) /\ r.tag = "x" /\ r.content = g[2] /\ Lane(r) = Named(Front(g[3]))
         /\ Kept(r) <=> Last(g[3]) # "" /\ Beside(Named(g[3]))
         /\ Kept(r) => r.path = Named(g[3])
<1> DEFINE r == Turned(g)
           f == Named(Front(g[3]))
           n == Last(g[3])
<1>1. r.tag = "x" /\ r.path = Append(f, n) /\ r.content = g[2]
  BY DEF Turned
<1>2. IsList(f)
  BY NamedIs
<1>3. Named(g[3]) = IF n # "" THEN Append(f, n) ELSE f
  BY NamedLast
<1> HIDE DEF r, f, n
<1>4. Last(Append(f, n)) = n /\ Front(Append(f, n)) = f /\ IsList(Append(f, n)) /\ Append(f, n) # <<>>
  BY <1>2, LastIs
<1>5. IsTag(r) /\ Lane(r) = f
  BY <1>1, <1>4 DEF IsTag, Lane
<1>6. Kept(r) <=> n # "" /\ Beside(Append(f, n))
  BY <1>1, <1>4 DEF Kept
<1>7. Kept(r) <=> n # "" /\ Beside(Named(g[3]))
  BY <1>3, <1>6
<1>8. Kept(r) => r.path = Named(g[3])
  BY <1>1, <1>3, <1>6
<1>9. QED  BY <1>1, <1>5, <1>7, <1>8 DEF r, f, n

\* The empty path brings no directory.
LEMMA NoWay == Nice(<<>>) = {}
<1>1. ASSUME NEW p \in Prefixes(<<>>) PROVE ~Beside(p)
  <2>1. PICK l \in 0 .. Len(<<>>) : p = SubSeq(<<>>, 1, l)
    BY DEF Prefixes
  <2>2. l = 0
    BY <2>1
  <2>3. p = <<>>
    BY <2>1, <2>2
  <2>4. QED  BY <2>3 DEF Beside
<1>2. QED  BY <1>1 DEF Nice

\* Which tags of an event are used.
LEMMA UsedAre ==
  ASSUME NEW e, Decent(e), NEW k \in 1 .. Len(e)
  PROVE  /\ Used(e[k]) <=> k \in FolderTags(e) \/ (k \in XTags(e) /\ FilePath(e, k) # <<>>)
         /\ k \in XTags(e) => k \notin FolderTags(e)
         /\ k \in FileTags(e) => k \in XTags(e) /\ FilePath(e, k) # <<>>
<1>1. k \in DOMAIN e
  BY ListLength DEF Decent
<1>2. Used(e[k]) <=> k \in FolderTags(e) \/ (k \in XTags(e) /\ FilePath(e, k) # <<>>)
  BY <1>1 DEF Used, FolderTags, XTags, FilePath
<1>3. k \in XTags(e) => k \notin FolderTags(e)
  BY DEF FolderTags, XTags
<1>4. k \in FileTags(e) => k \in XTags(e) /\ FilePath(e, k) # <<>>
  BY DEF FileTags, FilePath, Beside
<1>5. QED  BY <1>2, <1>3, <1>4

\* What a tag of the queue is, by the tag of the event.
LEMMA QueuedIs ==
  ASSUME NEW e, Decent(e), NEW L, NEW ix, Indexed(e, L, ix), NEW i \in 1 .. Len(L)
  PROVE  /\ ix[i] \in 1 .. Len(e) /\ IsTag(L[i])
         /\ ix[i] \in FolderTags(e) \/ ix[i] \in XTags(e)
         /\ ix[i] \in FolderTags(e) => Lane(L[i]) = Named(e[ix[i]][2]) /\ ~Kept(L[i])
         /\ ix[i] \in XTags(e) => Lane(L[i]) = Named(Front(e[ix[i]][3]))
         /\ Kept(L[i]) <=> ix[i] \in FileTags(e)
         /\ Kept(L[i]) => /\ L[i].path = FilePath(e, ix[i]) /\ L[i].content = e[ix[i]][2]
                          /\ L[i].tag = "x"
<1> DEFINE k == ix[i]
<1>1. k \in 1 .. Len(e) /\ L[i] = Turned(e[k]) /\ Used(e[k])
  BY DEF Indexed
<1> HIDE DEF k
<1>2. k \in FolderTags(e) \/ k \in XTags(e)
  BY <1>1, UsedAre
<1>3. CASE k \in FolderTags(e)
  <2>1. e[k][1] = "folder" /\ IsList(e[k][2])
    BY <1>3 DEF Decent, FolderTags
  <2>2. IsTag(L[i]) /\ L[i].tag = "folder" /\ Lane(L[i]) = Named(e[k][2]) /\ ~Kept(L[i])
    BY <1>1, <2>1, FolderTurned
  <2>3. k \notin XTags(e) /\ k \notin FileTags(e)
    BY <1>1, <1>3, UsedAre
  <2>4. QED  BY <1>1, <1>3, <2>2, <2>3 DEF k
<1>4. CASE k \in XTags(e)
  <2>1. e[k][1] = "x" /\ IsList(e[k][3]) /\ e[k][3] # <<>> /\ k \notin FolderTags(e)
    BY <1>1, <1>4, UsedAre DEF Decent, XTags
  <2>2. /\ IsTag(L[i]) /\ L[i].tag = "x" /\ L[i].content = e[k][2] /\ Lane(L[i]) = Named(Front(e[k][3]))
        /\ Kept(L[i]) <=> Last(e[k][3]) # "" /\ Beside(Named(e[k][3]))
        /\ Kept(L[i]) => L[i].path = Named(e[k][3])
    BY <1>1, <2>1, FileTurned
  <2>3. Kept(L[i]) <=> k \in FileTags(e)
    BY <1>4, <2>2 DEF FileTags
  <2>4. QED  BY <1>1, <1>4, <2>1, <2>2, <2>3 DEF k, FilePath
<1>5. QED  BY <1>2, <1>3, <1>4 DEF k

\* The directories on the ways of an event.
LEMMA LanesAre ==
  ASSUME NEW e, Decent(e), NEW L, NEW ix, Indexed(e, L, ix)
  PROVE  Lanes(L, Len(L)) = SavedDirs(e)
<1> DEFINE n == Len(L)
<1>1. ASSUME NEW i \in 1 .. n, NEW p \in Nice(Lane(L[i])) PROVE p \in SavedDirs(e)
  <2>1. Lane(L[i]) \in Ways(e)
    <3>1. CASE ix[i] \in FolderTags(e)
      BY <3>1, QueuedIs DEF Ways
    <3>2. CASE ix[i] \in XTags(e)
      BY <3>2, QueuedIs DEF Ways
    <3>3. QED  BY <3>1, <3>2, QueuedIs
  <2>2. p \in Prefixes(Lane(L[i])) /\ Beside(p)
    BY <1>1 DEF Nice
  <2>3. QED  BY <2>1, <2>2 DEF SavedDirs
<1>2. ASSUME NEW p \in SavedDirs(e) PROVE \E i \in 1 .. n : p \in Nice(Lane(L[i]))
  <2>1. PICK w \in Ways(e) : p \in Nice(w)
    BY DEF SavedDirs, Nice
  <2>2. \/ \E k \in FolderTags(e) : w = Named(e[k][2])
        \/ \E k \in XTags(e) : w = Named(Front(e[k][3]))
    BY DEF Ways
  <2>3. \A k \in 1 .. Len(e) : Used(e[k]) => \E i \in 1 .. n : ix[i] = k
    BY DEF Indexed
  <2>4. DOMAIN e = 1 .. Len(e)
    BY ListLength DEF Decent
  <2>5. ASSUME NEW k \in FolderTags(e), w = Named(e[k][2])
        PROVE  \E i \in 1 .. n : p \in Nice(Lane(L[i]))
    <3>1. k \in 1 .. Len(e)
      BY <2>4 DEF FolderTags
    <3>2. PICK i \in 1 .. n : ix[i] = k
      BY <2>3, <3>1, UsedAre
    <3>3. Lane(L[i]) = w
      BY <2>5, <3>2, QueuedIs
    <3>4. QED  BY <2>1, <3>3
  <2>6. ASSUME NEW k \in XTags(e), w = Named(Front(e[k][3]))
        PROVE  \E i \in 1 .. n : p \in Nice(Lane(L[i]))
    <3>1. k \in 1 .. Len(e)
      BY <2>4 DEF XTags
    <3>2. CASE FilePath(e, k) # <<>>
      <4>1. PICK i \in 1 .. n : ix[i] = k
        BY <2>3, <3>1, <3>2, UsedAre
      <4>2. Lane(L[i]) = w
        BY <2>6, <4>1, QueuedIs
      <4>3. QED  BY <2>1, <4>2
    <3>3. CASE FilePath(e, k) = <<>>
      <4> DEFINE s == e[k][3]
                 f == Named(Front(s))
                 x == Last(s)
      <4>1. IsList(s) /\ s # <<>>
        BY DEF Decent
      <4>2. Named(s) = IF x # "" THEN Append(f, x) ELSE f
        BY <4>1, NamedLast
      <4>3. IsList(f)
        BY <4>1, SplitIs, NamedIs
      <4>4. Named(s) = <<>> /\ w = f
        BY <2>6, <3>3 DEF FilePath
      <4> HIDE DEF s, f, x
      <4>5. w = <<>>
        BY <4>2, <4>3, <4>4, LastIs
      <4>6. QED  BY <2>1, <4>5, NoWay
    <3>4. QED  BY <3>2, <3>3
  <2>7. QED  BY <2>2, <2>5, <2>6
<1>3. QED  BY <1>1, <1>2 DEF Lanes

\* The files of an event; of several at one path the first.
FirstTags(e) == {k \in FileTags(e) : \A j \in FileTags(e) : e[j][3] = e[k][3] => k <= j}
SavedFiles(e) == {<<FilePath(e, k), e[k][2]>> : k \in FirstTags(e)}

\* What the tags of an event lay down are its files, no others.
LEMMA LaidAre ==
  ASSUME NEW e, Decent(e), NEW L, NEW ix, Indexed(e, L, ix)
  PROVE  /\ Roads(L, Len(L)) \subseteq FilePaths(e)
         /\ Laid(L, Len(L)) = SavedFiles(e)
<1> DEFINE n == Len(L)
<1>1. DOMAIN e = 1 .. Len(e) /\ Len(e) \in Nat /\ FileTags(e) \subseteq 1 .. Len(e) /\ n \in Nat
  BY ListLength DEF Decent, FileTags, XTags, Indexed
<1>2. \A i \in 1 .. n :
        /\ ix[i] \in 1 .. Len(e) /\ (Kept(L[i]) <=> ix[i] \in FileTags(e))
        /\ Kept(L[i]) => /\ L[i].path = FilePath(e, ix[i]) /\ L[i].content = e[ix[i]][2]
                         /\ L[i].tag = "x"
  BY QueuedIs
<1>3. \A k \in FileTags(e) : \E i \in 1 .. n : ix[i] = k
  <2>1. ASSUME NEW k \in FileTags(e) PROVE \E i \in 1 .. n : ix[i] = k
    <3>1. k \in 1 .. Len(e)
      BY <1>1
    <3>2. Used(e[k])
      BY <3>1, UsedAre
    <3>3. QED  BY <3>1, <3>2 DEF Indexed
  <2>2. QED  BY <2>1
<1>4. \A i, j \in 1 .. n : i < j /\ L[i].tag = "x" /\ L[j].tag = "x" => ix[i] < ix[j]
  BY DEF Indexed
<1>5. \A j, k \in FileTags(e) : FilePath(e, j) = FilePath(e, k) <=> e[j][3] = e[k][3]
  BY DEF Decent, FilePath
<1>6. Roads(L, n) \subseteq FilePaths(e)
  BY <1>2 DEF Roads, FilePaths
<1>7. ASSUME NEW i \in 1 .. n, First(L, i)
      PROVE  ix[i] \in FirstTags(e) /\ <<L[i].path, L[i].content>> = <<FilePath(e, ix[i]), e[ix[i]][2]>>
  <2>1. Kept(L[i]) /\ \A h \in 1 .. i - 1 : ~(Kept(L[h]) /\ L[h].path = L[i].path)
    BY <1>7 DEF First
  <2>2. ASSUME NEW j \in FileTags(e), e[j][3] = e[ix[i]][3] PROVE ix[i] <= j
    <3>1. PICK h \in 1 .. n : ix[h] = j
      BY <1>3
    <3>2. Kept(L[h]) /\ L[h].path = L[i].path /\ L[h].tag = "x" /\ L[i].tag = "x"
      BY <1>2, <1>5, <2>1, <2>2, <3>1
    <3>3. ~(h < i)
      <4>1. h < i => h \in 1 .. i - 1
        BY <1>1
      <4>2. QED  BY <2>1, <3>2, <4>1
    <3>4. h = i \/ ix[i] < ix[h]
      BY <1>1, <1>4, <3>2, <3>3
    <3>5. ix[i] \in Nat /\ ix[h] \in Nat
      BY <1>1, <1>2
    <3>6. QED  BY <3>1, <3>4, <3>5
  <2>3. ix[i] \in FirstTags(e)
    BY <1>2, <2>1, <2>2 DEF FirstTags
  <2>4. QED  BY <1>2, <2>1, <2>3
<1>8. ASSUME NEW k \in FirstTags(e)
      PROVE  \E i \in 1 .. n : First(L, i) /\ <<L[i].path, L[i].content>> = <<FilePath(e, k), e[k][2]>>
  <2>1. k \in FileTags(e) /\ \A j \in FileTags(e) : e[j][3] = e[k][3] => k <= j
    BY DEF FirstTags
  <2>2. PICK i \in 1 .. n : ix[i] = k
    BY <1>3, <2>1
  <2>3. Kept(L[i]) /\ L[i].path = FilePath(e, k) /\ L[i].content = e[k][2] /\ L[i].tag = "x"
    BY <1>2, <2>1, <2>2
  <2>4. ASSUME NEW h \in 1 .. i - 1, Kept(L[h]), L[h].path = L[i].path PROVE FALSE
    <3>1. h \in 1 .. n /\ h < i
      BY <1>1
    <3>2. ix[h] \in FileTags(e) /\ FilePath(e, ix[h]) = FilePath(e, k) /\ L[h].tag = "x"
      BY <1>2, <2>3, <2>4, <3>1
    <3>3. k <= ix[h]
      BY <1>5, <2>1, <3>2
    <3>4. ix[h] < k
      BY <1>4, <2>2, <2>3, <3>1, <3>2
    <3>5. QED  BY <1>1, <2>1, <3>2, <3>3, <3>4
  <2>5. First(L, i)
    BY <2>3, <2>4 DEF First
  <2>6. QED  BY <2>3, <2>5
<1>9. Laid(L, n) = SavedFiles(e)
  <2>1. \A f : f \in Laid(L, n) <=> \E i \in 1 .. n : First(L, i) /\ f = <<L[i].path, L[i].content>>
    BY DEF Laid
  <2>2. \A f : f \in SavedFiles(e) <=> \E k \in FirstTags(e) : f = <<FilePath(e, k), e[k][2]>>
    BY DEF SavedFiles
  <2>3. Laid(L, n) \subseteq SavedFiles(e)
    BY <1>7, <2>1, <2>2
  <2>4. SavedFiles(e) \subseteq Laid(L, n)
    BY <1>8, <2>1, <2>2
  <2>5. QED  BY <2>3, <2>4
<1>10. QED  BY <1>6, <1>9

\* What applying the tags of an event brings.
LEMMA EventBrings ==
  ASSUME NEW e, Decent(e), NEW t, Bears(t, {}, {})
  PROVE  Bears(ApplyPersisted(t, Applied(EventToTags(e))), SavedDirs(e), SavedFiles(e))
<1> DEFINE A == Applied(EventToTags(e))
           L == Queue(A)
           n == Len(L)
<1>1. IsList(e) /\ \A k \in DOMAIN e : Len(e[k]) \in Nat
  BY DEF Decent
<1>2. PICK q : Turns(e, A, q)
  BY <1>1, TurnedIs
<1> HIDE DEF A
<1>3. PICK ix : Indexed(e, L, ix)
  BY <1>2, IndexIs
<1>4. n \in Nat
  BY <1>3 DEF Indexed
<1>5. PICK u : Applies(t, L, n, u) /\ ApplyPersisted(t, A) = u[n]
  BY <1>4, QueueApplies
<1> HIDE DEF L
<1>6. /\ Lanes(L, n) = SavedDirs(e) /\ Roads(L, n) \subseteq FilePaths(e)
      /\ Laid(L, n) = SavedFiles(e)
  BY <1>3, LanesAre, LaidAre
<1>7. \A i \in 1 .. n : IsTag(L[i])
  BY <1>3, QueuedIs
<1>8. SavedDirs(e) \cap FilePaths(e) = {}
  BY DEF Decent, FilePaths
<1>9. \A p \in SavedDirs(e) \union FilePaths(e) : \A j \in DOMAIN p : San[p[j]] = p[j]
  BY DEF Decent
<1> HIDE DEF n
<1>10. Sound(L, n)
  BY <1>6, <1>7, <1>8, <1>9 DEF Sound
<1>11. Bears(u[n], Lanes(L, n), Laid(L, n))
  BY <1>4, <1>5, <1>10, LoopAdds
<1>12. QED  BY <1>5, <1>6, <1>11 DEF A

\* Before that nothing of ours stands.
LEMMA NothingYet ==
  ASSUME NEW t, Standing(t)
  PROVE  Bears(t, {}, {})
<1>1. Shaped(t) /\ Rooted(t) /\ Len(t) \in Nat
  BY ShapedIs DEF Standing
<1> DEFINE Q == {i \in 1 .. Len(t) : i \notin Own(t)}
<1>2. 1 .. Len(t) \subseteq Q
  <2>1. ASSUME NEW i \in 1 .. Len(t), \A j \in 1 .. Len(t) : j < i => j \in Q PROVE i \in Q
    <3>1. SUFFICES ASSUME i \in Own(t) PROVE FALSE
      OBVIOUS
    <3>2. i \in Linked(t)
      BY <3>1 DEF Own
    <3>3. i # Root
      <4>1. Beside(PathOf(t)[i])
        BY <3>1 DEF Own
      <4>2. PathOf(t)[i] # <<>>
        BY <4>1 DEF Beside
      <4>3. QED  BY <1>1, <4>2, EmptyPath
    <3> DEFINE p == t[i].parent
    <3>4. /\ p \in Linked(t) /\ p \in 1 .. Len(t) /\ i \in Range(t[p].children)
          /\ i \in Own(t) <=> IF p = Root THEN t[i].name \notin Generated ELSE p \in Own(t)
      BY <1>1, <3>2, <3>3, OwnIs
    <3>5. p < i
      <4>1. p \in 0 .. i - 1
        BY <1>1 DEF Shaped
      <4>2. QED  BY <4>1
    <3> HIDE DEF p
    <3>6. CASE p = Root
      BY <1>1, <3>1, <3>4, <3>6 DEF Rooted
    <3>7. CASE p # Root
      BY <2>1, <3>1, <3>4, <3>5, <3>7
    <3>8. QED  BY <3>6, <3>7
  <2>2. 1 .. Len(t) \in SUBSET Nat
    BY <1>1
  <2> HIDE DEF Q
  <2>3. QED  BY <2>1, <2>2, StrongInduction
<1>3. Own(t) = {}
  <2>1. \A i \in Linked(t) : i \in 1 .. Len(t)
    BY DEF Linked
  <2>2. QED  BY <1>2, <2>1 DEF Own
<1>4. OwnDirs(t) = {} /\ OwnFiles(t) = {} /\ Sole(t)
  BY <1>3 DEF OwnDirs, OwnFiles, Sole
<1>5. QED  BY <1>1, <1>3, <1>4 DEF Bears

\* What stands beside the generated directories, as RestoredExact has it.
Shown(t) ==
  LET at == PathOf(t)
  IN  {<<at[i], t[i].content>> : i \in {j \in Linked(t) \ {Root} : at[j][1] \notin Generated}}

\* It is the directories and files of ours.
LEMMA HeldShown ==
  ASSUME NEW t, NEW D, NEW F, Bears(t, D, F)
  PROVE  Shown(t) = {<<p, None>> : p \in D} \union F
<1>1. Shaped(t) /\ OwnDirs(t) = D /\ OwnFiles(t) = F
      /\ \A i \in Own(t) : t[i].kind = "dir" => t[i].content = None
  BY DEF Bears
<1>2. Own(t) = {j \in Linked(t) \ {Root} : PathOf(t)[j][1] \notin Generated}
  <2>1. \A j \in Linked(t) : j \in 1 .. Len(t)
    BY DEF Linked
  <2>2. \A j \in Linked(t) : PathOf(t)[j] = <<>> <=> j = Root
    BY <1>1, <2>1, EmptyPath
  <2>3. QED  BY <2>2 DEF Own, Beside
<1>3. \A f : f \in Shown(t) <=> \E i \in Own(t) : f = <<PathOf(t)[i], t[i].content>>
  BY <1>2 DEF Shown
<1>4. \A f : f \in {<<p, None>> : p \in D}
               <=> \E i \in Own(t) : t[i].kind = "dir" /\ f = <<PathOf(t)[i], t[i].content>>
  <2>1. \A p : p \in D <=> \E i \in Own(t) : t[i].kind = "dir" /\ p = PathOf(t)[i]
    BY <1>1 DEF OwnDirs
  <2>2. QED  BY <1>1, <2>1
<1>5. \A f : f \in F <=> \E i \in Own(t) : t[i].kind # "dir" /\ f = <<PathOf(t)[i], t[i].content>>
  BY <1>1 DEF OwnFiles
<1>6. QED  BY <1>3, <1>4, <1>5

\* The events among those that were asked for that are of the drive.
Fitting(events, name) ==
  {k \in DOMAIN events : /\ k <= PersistLimit
                         /\ {<<"d", name>>, <<"l", "blossomfs">>} \subseteq TagPairs(events[k])}

\* An event is of the drive if both its tags are there.
LEMMA DriveIs ==
  ASSUME NEW e, IsList(e), NEW name
  PROVE  IsDrive(e, name) <=> {<<"d", name>>, <<"l", "blossomfs">>} \subseteq TagPairs(e)
<1>1. DOMAIN e = 1 .. Len(e)
  BY ListLength
<1>2. ASSUME NEW a, NEW v
      PROVE  (\E g \in Range(e) : Len(g) >= 2 /\ g[1] = a /\ g[2] = v) <=> <<a, v>> \in TagPairs(e)
  <2>1. (\E g \in Range(e) : Len(g) >= 2 /\ g[1] = a /\ g[2] = v)
          <=> \E k \in DOMAIN e : Len(e[k]) >= 2 /\ e[k][1] = a /\ e[k][2] = v
    BY <1>1 DEF Range
  <2>2. <<a, v>> \in TagPairs(e)
          <=> \E k \in DOMAIN e : Len(e[k]) >= 2 /\ <<e[k][1], e[k][2]>> = <<a, v>>
    BY DEF TagPairs
  <2>3. \A b, c : <<b, c>> = <<a, v>> <=> b = a /\ c = v
    OBVIOUS
  <2>4. QED  BY <2>1, <2>2, <2>3
<1>3. IsDrive(e, name) <=>
        /\ \E g \in Range(e) : Len(g) >= 2 /\ g[1] = "d" /\ g[2] = name
        /\ \E g \in Range(e) : Len(g) >= 2 /\ g[1] = "l" /\ g[2] = "blossomfs"
  BY DEF IsDrive
<1>4. IsDrive(e, name) <=> <<"d", name>> \in TagPairs(e) /\ <<"l", "blossomfs">> \in TagPairs(e)
  BY <1>2, <1>3
<1>5. QED  BY <1>4

\* The event that is fetched is the first that fits.
LEMMA FetchIs ==
  ASSUME NEW events, IsList(events), \A k \in DOMAIN events : IsList(events[k]), NEW name
  PROVE  LET fits == Fitting(events, name) IN
         /\ FetchPersistEvent(events, name)
              = IF fits = {} THEN NoAnswer ELSE Answer(EventToTags(events[Min(fits)]))
         /\ fits # {} => Min(fits) \in fits
<1> DEFINE fits == Fitting(events, name)
           m == IF Len(events) < PersistLimit THEN Len(events) ELSE PersistLimit
           asked == SubSeq(events, 1, m)
           S == {e \in Range(asked) : IsDrive(e, name)}
           found == Only(asked, S)
<1>1. FetchPersistEvent(events, name)
        = IF found = <<>> THEN NoAnswer ELSE Answer(EventToTags(found[1]))
  BY DEF FetchPersistEvent
<1>2. Len(events) \in Nat /\ DOMAIN events = 1 .. Len(events) /\ events \in Seq(Range(events))
  BY ListLength DEF IsList
<1>3. m \in 0 .. Len(events) /\ \A k \in 1 .. Len(events) : k <= m <=> k <= PersistLimit
  BY <1>2, DaemonAssumption
<1> HIDE DEF m
<1>4. IsList(asked) /\ Len(asked) = m /\ \A k \in 1 .. m : asked[k] = events[k]
  BY <1>2, <1>3, PrefixIs, ListOf
<1> HIDE DEF asked
<1>5. \A k \in 1 .. m : asked[k] \in S <=> k \in fits
  <2>1. ASSUME NEW k \in 1 .. m PROVE asked[k] \in S <=> k \in fits
    <3>1. k \in DOMAIN events /\ k <= PersistLimit /\ asked[k] = events[k]
      BY <1>2, <1>3, <1>4
    <3>2. asked[k] \in Range(asked)
      BY <1>3, <1>4, ListLength DEF Range
    <3>3. k \in fits <=> IsDrive(events[k], name)
      BY <3>1, DriveIs DEF Fitting
    <3>4. QED  BY <3>1, <3>2, <3>3
  <2>2. QED  BY <2>1
<1>6. fits \subseteq 1 .. m
  BY <1>2, <1>3 DEF Fitting
<1>7. PICK q : Takes(asked, S, found, q)
  BY <1>4, TakesIs
<1> HIDE DEF S, found, fits
<1>8. /\ IsList(found) /\ Len(found) \in Nat
      /\ \A j \in 1 .. Len(found) : q[j] \in 1 .. m /\ found[j] = asked[q[j]] /\ q[j] \in fits
      /\ \A i, j \in 1 .. Len(found) : i < j => q[i] < q[j]
      /\ \A k \in fits : \E j \in 1 .. Len(found) : q[j] = k
  <2>1. /\ IsList(found) /\ Len(found) \in Nat
        /\ \A j \in 1 .. Len(found) : q[j] \in 1 .. m /\ found[j] = asked[q[j]] /\ asked[q[j]] \in S
        /\ \A i, j \in 1 .. Len(found) : i < j => q[i] < q[j]
        /\ \A k \in 1 .. m : asked[k] \in S => \E j \in 1 .. Len(found) : q[j] = k
    BY <1>4, <1>7 DEF Takes
  <2>2. QED  BY <1>5, <1>6, <2>1
<1>9. fits \in SUBSET Nat
  BY <1>3, <1>6
<1>10. fits # {} => Min(fits) \in fits /\ \A k \in fits : Min(fits) <= k
  BY <1>9, MinIs
<1>11. CASE fits = {}
  <2>1. Len(found) = 0
    <3>1. SUFFICES ASSUME Len(found) # 0 PROVE FALSE
      OBVIOUS
    <3>2. 1 \in 1 .. Len(found)
      BY <1>8, <3>1
    <3>3. QED  BY <1>8, <1>11, <3>2
  <2>2. found = <<>>
    <3>1. found \in Seq(Range(found))
      BY <1>8 DEF IsList
    <3>2. QED  BY <2>1, <3>1
  <2>3. QED  BY <1>1, <1>11, <2>2 DEF fits
<1>12. CASE fits # {}
  <2>1. PICK j \in 1 .. Len(found) : q[j] = Min(fits)
    BY <1>8, <1>10, <1>12
  <2>2. 1 \in 1 .. Len(found) /\ found # <<>>
    BY <1>8, <2>1
  <2>3. q[1] \in fits /\ found[1] = events[q[1]] /\ Min(fits) <= q[1]
    BY <1>4, <1>8, <1>10, <1>12, <2>2
  <2>4. j = 1
    <3>1. SUFFICES ASSUME j # 1 PROVE FALSE
      OBVIOUS
    <3>2. 1 < j
      BY <2>1, <3>1
    <3>3. q[1] < q[j]
      BY <1>8, <2>1, <2>2, <3>2
    <3>4. q[1] \in Nat /\ Min(fits) \in Nat
      BY <1>9, <1>10, <1>12, <2>3
    <3>5. QED  BY <2>1, <2>3, <3>3, <3>4
  <2>5. found[1] = events[Min(fits)]
    BY <2>1, <2>3, <2>4
  <2>6. QED  BY <1>1, <1>10, <1>12, <2>2, <2>5 DEF fits
<1>13. QED  BY <1>11, <1>12

\* What the relays have of the drive is decent.
LEMMA SavedIs ==
  ASSUME NEW a \in SavedEvents
  PROVE  /\ IsList(a.is) /\ (a.ok \/ a.is = <<>>)
         /\ \A k \in DOMAIN a.is : /\ IsList(a.is[k])
                                   /\ <<"l", "blossomfs">> \in TagPairs(a.is[k]) => Decent(a.is[k])
<1>1. IsList(a.is) /\ (a.ok \/ a.is = <<>>)
  BY SavedAssumption
<1>2. ASSUME NEW k \in DOMAIN a.is
      PROVE  IsList(a.is[k]) /\ (<<"l", "blossomfs">> \in TagPairs(a.is[k]) => Decent(a.is[k]))
  <2> DEFINE e == a.is[k]
  <2>1. e \in Range(a.is)
    BY <1>2 DEF Range
  <2>2. IsList(e) /\ \A i \in DOMAIN e : Len(e[i]) \in Nat
    BY <2>1, SavedAssumption
  <2>3. ASSUME <<"l", "blossomfs">> \in TagPairs(e) PROVE Decent(e)
    <3>1. /\ \A i \in FolderTags(e) : IsList(e[i][2])
          /\ \A i \in XTags(e) : IsList(e[i][3]) /\ e[i][3] # <<>>
          /\ \A p \in SavedDirs(e) \union {Named(e[i][3]) : i \in FileTags(e)} :
               \A j \in DOMAIN p : San[p[j]] = p[j]
          /\ \A j, i \in FileTags(e) :
               /\ Named(e[j][3]) \notin SavedDirs(e)
               /\ Named(e[j][3]) = Named(e[i][3]) => e[j][3] = e[i][3]
      BY <2>1, <2>3, SavedAssumption
    <3> HIDE DEF e
    <3>2. QED  BY <2>2, <3>1 DEF Decent, FilePath, FilePaths
  <2>4. QED  BY <2>2, <2>3
<1>3. QED  BY <1>1, <1>2

\* Names that are sanitised stay what they are.
LEMMA CleanIs ==
  ASSUME NEW p, IsList(p), \A j \in DOMAIN p : San[p[j]] = p[j]
  PROVE  Clean(p) = p
<1>1. p \in Seq(Range(p)) /\ DOMAIN p = 1 .. Len(p)
  BY ListLength DEF IsList
<1>2. p = [j \in DOMAIN p |-> p[j]]
  BY <1>1
<1>3. Clean(p) = [j \in DOMAIN p |-> p[j]]
  BY DEF Clean
<1>4. QED  BY <1>2, <1>3

\* The paths of an event are lists.
LEMMA PathsAreLists ==
  ASSUME NEW e, Decent(e)
  PROVE  \A p \in SavedDirs(e) \union FilePaths(e) : IsList(p)
<1>1. ASSUME NEW w \in Ways(e) PROVE IsList(w)
  <2>1. \/ \E k \in FolderTags(e) : w = Named(e[k][2])
        \/ \E k \in XTags(e) : w = Named(Front(e[k][3]))
    BY DEF Ways
  <2>2. ASSUME NEW k \in FolderTags(e) PROVE IsList(Named(e[k][2]))
    BY NamedIs DEF Decent
  <2>3. ASSUME NEW k \in XTags(e) PROVE IsList(Named(Front(e[k][3])))
    <3>1. IsList(e[k][3]) /\ e[k][3] # <<>>
      BY DEF Decent
    <3>2. IsList(Front(e[k][3]))
      BY <3>1, SplitIs
    <3>3. QED  BY <3>2, NamedIs
  <2>4. QED  BY <2>1, <2>2, <2>3
<1>2. ASSUME NEW p \in SavedDirs(e) PROVE IsList(p)
  <2>1. PICK w \in Ways(e) : p \in Prefixes(w)
    BY DEF SavedDirs
  <2>2. PICK l \in 0 .. Len(w) : p = SubSeq(w, 1, l)
    BY <2>1 DEF Prefixes
  <2>3. w \in Seq(Range(w))
    BY <1>1 DEF IsList
  <2>4. QED  BY <2>2, <2>3, PrefixIs, ListOf
<1>3. ASSUME NEW p \in FilePaths(e) PROVE IsList(p)
  <2>1. PICK k \in FileTags(e) : p = Named(e[k][3])
    BY DEF FilePaths, FilePath
  <2>2. IsList(e[k][3])
    BY DEF Decent, FileTags
  <2>3. QED  BY <2>1, <2>2, NamedIs
<1>4. QED  BY <1>2, <1>3

\* What the structure is when an event fits.
LEMMA StructureIs ==
  ASSUME NEW events, NEW name, NEW e, Fitting(events, name) # {},
         e = events[Min(Fitting(events, name))], Decent(e)
  PROVE  Structure(events, name) = {<<p, None>> : p \in SavedDirs(e)} \union SavedFiles(e)
<1>1. Structure(events, name)
        = {<<Clean(p), None>> : p \in SavedDirs(e)}
            \union {<<Clean(Named(e[k][3])), e[k][2]>> : k \in FirstTags(e)}
  BY DEF Structure, Fitting, FirstTags
<1>2. \A p \in SavedDirs(e) \union FilePaths(e) : Clean(p) = p
  BY PathsAreLists, CleanIs DEF Decent
<1>3. {<<Clean(p), None>> : p \in SavedDirs(e)} = {<<p, None>> : p \in SavedDirs(e)}
  BY <1>2
<1>4. {<<Clean(Named(e[k][3])), e[k][2]>> : k \in FirstTags(e)} = SavedFiles(e)
  <2>1. \A k \in FirstTags(e) : Clean(Named(e[k][3])) = FilePath(e, k)
    BY <1>2 DEF FirstTags, FilePaths, FilePath
  <2>2. QED  BY <2>1 DEF SavedFiles
<1>5. QED  BY <1>1, <1>3, <1>4

\* What it is when none does.
LEMMA NoStructure ==
  ASSUME NEW events, NEW name, Fitting(events, name) = {}
  PROVE  Structure(events, name) = {}
<1> DEFINE e == <<>>
<1>1. FolderTags(e) = {} /\ XTags(e) = {}
  BY DEF FolderTags, XTags
<1>2. FileTags(e) = {} /\ Ways(e) = {}
  BY <1>1 DEF FileTags, Ways
<1>3. SavedDirs(e) = {} /\ FirstTags(e) = {}
  BY <1>2 DEF SavedDirs, FirstTags
<1>4. Structure(events, name)
        = {<<Clean(p), None>> : p \in SavedDirs(e)}
            \union {<<Clean(Named(e[k][3])), e[k][2]>> : k \in FirstTags(e)}
  BY DEF Structure, Fitting, FirstTags
<1> HIDE DEF e
<1>5. QED  BY <1>3, <1>4

\* What a mount has of the drive once it has applied what came.
Restored(t, a, name) ==
  LET saved == IF a.ok THEN FetchPersistEvent(a.is, name) ELSE NoAnswer
  IN  IF saved.ok THEN ApplyPersisted(t, Applied(saved.is)) ELSE t

\* A tree that has nothing of the user's has then what the event has.
LEMMA Restores ==
  ASSUME NEW t, Standing(t), NEW a, a \in SavedEvents \/ a = NoAnswer, NEW name
  PROVE  Shown(Restored(t, a, name)) = Structure(a.is, name)
<1> DEFINE fits == Fitting(a.is, name)
           e == a.is[Min(fits)]
           u == Restored(t, a, name)
<1>1. /\ IsList(a.is) /\ (a.ok \/ a.is = <<>>)
      /\ \A k \in DOMAIN a.is : /\ IsList(a.is[k])
                                /\ <<"l", "blossomfs">> \in TagPairs(a.is[k]) => Decent(a.is[k])
  <2>1. CASE a \in SavedEvents
    BY <2>1, SavedIs
  <2>2. CASE a = NoAnswer
    <3>1. a.is = <<>>
      BY <2>2 DEF NoAnswer
    <3>2. IsList(a.is) /\ DOMAIN a.is = {}
      BY <3>1 DEF IsList
    <3>3. QED  BY <3>1, <3>2
  <2>3. QED  BY <2>1, <2>2
<1>2. /\ FetchPersistEvent(a.is, name) = IF fits = {} THEN NoAnswer ELSE Answer(EventToTags(e))
      /\ fits # {} => Min(fits) \in fits
  BY <1>1, FetchIs
<1>3. Bears(t, {}, {})
  BY NothingYet
<1>4. CASE fits = {}
  <2>1. u = t
    BY <1>2, <1>4 DEF Restored, NoAnswer
  <2>2. Structure(a.is, name) = {}
    BY <1>4, NoStructure
  <2>3. Shown(t) = {<<p, None>> : p \in {}} \union {}
    BY <1>3, HeldShown
  <2>4. Shown(t) = {}
    BY <2>3
  <2> HIDE DEF u
  <2>5. QED  BY <2>1, <2>2, <2>4 DEF u
<1>5. CASE fits # {}
  <2>1. Min(fits) \in DOMAIN a.is /\ {<<"d", name>>, <<"l", "blossomfs">>} \subseteq TagPairs(e)
    BY <1>2, <1>5 DEF Fitting
  <2>2. Decent(e) /\ a.ok
    <3>1. Decent(e)
      BY <1>1, <2>1
    <3>2. a.is # <<>>
      BY <2>1
    <3>3. QED  BY <1>1, <3>1, <3>2
  <2>3. FetchPersistEvent(a.is, name) = [ok |-> TRUE, is |-> EventToTags(e)]
    BY <1>2, <1>5 DEF Answer
  <2> HIDE DEF e
  <2>4. u = ApplyPersisted(t, Applied(EventToTags(e)))
    BY <2>2, <2>3 DEF Restored
  <2> HIDE DEF u
  <2>5. Bears(u, SavedDirs(e), SavedFiles(e))
    BY <1>3, <2>2, <2>4, EventBrings
  <2>6. Shown(u) = {<<p, None>> : p \in SavedDirs(e)} \union SavedFiles(e)
    BY <2>5, HeldShown
  <2>7. Structure(a.is, name) = {<<p, None>> : p \in SavedDirs(e)} \union SavedFiles(e)
    BY <1>5, <2>2, StructureIs DEF e
  <2>8. QED  BY <2>6, <2>7 DEF u
<1>6. QED  BY <1>4, <1>5

-----------------------------------------------------------------------------
\* The phases in which the tree is built, and those after the listing.
Building == {"servers", "manifest", "list", "drives", "meta", "repos", "files", "keys", "saved"}
AfterList == {"drives", "meta", "repos", "files", "keys"}

Forms ==
  /\ built = [d \in Daemons |-> built[d]]
  /\ heard = [d \in Daemons |-> heard[d]]

\* CappedTold, for one daemon.
CutTold(d) ==
  servers[d] # <<>> =>
    \A pk \in Range(Pubkeys(Keys(d))), u \in Range(servers[d]) :
      LET a == heard[d].listings[pk][u] IN
      /\ a.ok /\ args[d].max_blobs \in 1 .. Len(a.is) - 1
      /\ \A b \in Range(a.is) : Validates(b)
      => Capped(built[d], args[d].max_blobs)

IsHeard(h) == h = [answers |-> h.answers, listings |-> h.listings] /\ "saved" \in DOMAIN h.answers

\* RestoredExact, for one daemon.
Brought(d) ==
  Shown(built[d].tree) = Structure(heard[d].answers["saved"].is, args[d].persist)

Telling(d) ==
  /\ phase[d] \in Building => IsBuilt(built[d]) /\ IsHeard(heard[d])
  /\ phase[d] \in AfterList => CutTold(d)
  /\ phase[d] = "pay" => Brought(d)

TellInv == ServerInv /\ Forms /\ \A d \in Daemons : Telling(d)

Untouched(d) ==
  /\ phase'[d] = phase[d] /\ args'[d] = args[d] /\ servers'[d] = servers[d]
  /\ built'[d] = built[d] /\ heard'[d] = heard[d]

Leaves(d) == Forms' /\ \A e \in Daemons \ {d} : Untouched(e)

\* What nothing is done to tells as before.
LEMMA UntouchedTell ==
  ASSUME NEW d \in Daemons, Telling(d), Untouched(d)
  PROVE  Telling(d)'
BY DEF Telling, Untouched, CutTold, Keys, Brought

\* One step of a start, from one phase to the next.
LEMMA Moved ==
  ASSUME TellInv, NEW d \in Daemons, NEW p, phase' = [phase EXCEPT ![d] = p], args' = args,
         NEW S, servers' = [servers EXCEPT ![d] = S],
         NEW B, built' = [built EXCEPT ![d] = B], NEW H, heard' = [heard EXCEPT ![d] = H]
  PROVE  /\ Leaves(d) /\ phase'[d] = p /\ servers'[d] = S /\ built'[d] = B /\ heard'[d] = H
         /\ args'[d] = args[d]
<1>1. /\ phase = [e \in Daemons |-> phase[e]] /\ servers = [e \in Daemons |-> servers[e]]
      /\ built = [e \in Daemons |-> built[e]] /\ heard = [e \in Daemons |-> heard[e]]
  BY DEF TellInv, ServerInv, ArgsInv, TypeInv, Typed, Functional, Forms
<1>2. QED  BY <1>1 DEF Leaves, Untouched, Forms

\* After the listing, what a source adds takes nothing away from what is told.
LEMMA GrownTells ==
  ASSUME TellInv, NEW d \in Daemons, phase[d] \in AfterList, servers' = servers, args' = args,
         NEW p \in AfterList, phase' = [phase EXCEPT ![d] = p],
         NEW B, built' = [built EXCEPT ![d] = B], Grown(built[d], B),
         NEW H, heard' = [heard EXCEPT ![d] = H], IsHeard(H), H.listings = heard[d].listings
  PROVE  Leaves(d) /\ Telling(d)'
<1>1. /\ phase = [e \in Daemons |-> phase[e]]
      /\ built = [e \in Daemons |-> built[e]] /\ heard = [e \in Daemons |-> heard[e]]
  BY DEF TellInv, ServerInv, ArgsInv, TypeInv, Typed, Forms
<1>2. /\ phase'[d] = p /\ built'[d] = B /\ heard'[d] = H
      /\ \A e \in Daemons \ {d} : phase'[e] = phase[e] /\ built'[e] = built[e] /\ heard'[e] = heard[e]
      /\ Forms'
  BY <1>1 DEF Forms
<1>3. Leaves(d) /\ args'[d] = args[d] /\ servers'[d] = servers[d]
  BY <1>2 DEF Leaves, Untouched
<1>4. CutTold(d) /\ IsBuilt(built[d])
  BY DEF TellInv, Telling, Building, AfterList
<1>5. \A m \in Nat : Capped(built[d], m) => Capped(B, m)
  BY <1>4 DEF Capped, Grown, IsBuilt
<1>6. CutTold(d)'
  <2>1. Keys(d)' = Keys(d)
    BY <1>3 DEF Keys
  <2>2. SUFFICES ASSUME servers[d] # <<>>, NEW pk \in Range(Pubkeys(Keys(d))),
                        NEW u \in Range(servers[d]),
                        heard[d].listings[pk][u].ok,
                        args[d].max_blobs \in 1 .. Len(heard[d].listings[pk][u].is) - 1,
                        \A b \in Range(heard[d].listings[pk][u].is) : Validates(b)
                 PROVE  Capped(B, args[d].max_blobs)
    BY <1>2, <1>3, <2>1 DEF CutTold
  <2>3. Capped(built[d], args[d].max_blobs)
    BY <1>4, <2>2 DEF CutTold
  <2>4. args[d].max_blobs \in Nat
    BY <2>2
  <2>5. QED  BY <1>5, <2>3, <2>4
<1>7. p # "pay"
  BY DEF AfterList
<1>8. QED  BY <1>2, <1>3, <1>6, <1>7 DEF Telling, Grown

\* Before the listing there is nothing to tell.
LEMMA EarlyTells ==
  ASSUME TellInv, NEW d \in Daemons, args' = args,
         NEW p, p \notin AfterList, p # "pay", phase' = [phase EXCEPT ![d] = p],
         NEW S, servers' = [servers EXCEPT ![d] = S],
         NEW B, built' = [built EXCEPT ![d] = B], p \in Building => IsBuilt(B),
         NEW H, heard' = [heard EXCEPT ![d] = H], p \in Building => IsHeard(H)
  PROVE  Leaves(d) /\ Telling(d)'
<1>1. Leaves(d) /\ phase'[d] = p /\ built'[d] = B /\ heard'[d] = H
  BY Moved
<1>2. QED  BY <1>1 DEF Telling

\* What the arguments of a start make of its keys and limit.
LEMMA KeysAsked ==
  ASSUME TellInv, NEW d \in Daemons, Alive(d)
  PROVE  /\ IsList(Pubkeys(Keys(d))) /\ args[d].max_blobs \in Nat
         /\ \A l \in Listings : \A pk \in Range(Pubkeys(Keys(d))), u \in WebUrls : IsAnswer(l[pk][u])
<1> DEFINE l == launch[d]
           a == args[d]
<1>1. plan \in Plans /\ l \in plan[d] /\ Extracts(l.file, l.env)
      /\ a = LoadMerged(l.flags, l.file, l.env)
  BY DEF TellInv, ServerInv, ArgsInv, Started
<1>2. /\ IsList(a.npub) /\ IsList(a.pubkey) /\ a.max_blobs \in Nat
      /\ \A list \in Listings : \A pk \in Range(Pubkeys(PubkeyHexes(a))) :
           \A u \in WebUrls : IsAnswer(list[pk][u])
  BY <1>1, ListingAssumption
<1> HIDE DEF a, l
<1> DEFINE parsed == Only(a.npub, {k \in DOMAIN KeyForm : ParsesAsNpub(k)})
           hexes  == [k \in DOMAIN parsed |-> HexOf[parsed[k]]]
           Hs     == {HexOf[parsed[k]] : k \in DOMAIN parsed}
<1>3. PubkeyHexes(a) = a.pubkey \o hexes
  BY DEF PubkeyHexes
<1>4. Len(parsed) \in Nat /\ DOMAIN parsed = 1 .. Len(parsed)
  <2> DEFINE T == Range(a.npub)
             P == {k \in DOMAIN KeyForm : ParsesAsNpub(k)}
  <2>1. a.npub \in Seq(T)
    BY <1>2 DEF IsList
  <2> HIDE DEF T, P
  <2>2. Only(a.npub, P) \in Seq(T)
    BY <2>1, OnlyPicks
  <2>3. QED  BY <2>2 DEF P
<1> HIDE DEF parsed
<1>5. hexes \in Seq(Hs)
  <2>1. \A k \in DOMAIN parsed : HexOf[parsed[k]] \in Hs
    OBVIOUS
  <2> HIDE DEF Hs
  <2>2. hexes \in [1 .. Len(parsed) -> Hs]
    BY <1>4, <2>1
  <2>3. QED  BY <1>4, <2>2
<1>6. a.pubkey \in Seq(Range(a.pubkey))
  BY <1>2 DEF IsList
<1> HIDE DEF hexes, Hs
<1> DEFINE R == Range(a.pubkey)
<1> HIDE DEF R
<1>7. a.pubkey \o hexes \in Seq(R \union Hs)
  BY <1>5, <1>6 DEF R
<1>8. IsList(Pubkeys(PubkeyHexes(a)))
  <2> DEFINE q == Pubkeys(PubkeyHexes(a))
  <2>1. Len(q) \in Nat /\ DOMAIN q = 1 .. Len(q) /\ q = [k \in 1 .. Len(q) |-> q[k]]
    <3> DEFINE w == PubkeyHexes(a)
    <3>1. w \in Seq(R \union Hs)
      BY <1>3, <1>7
    <3>2. q = Pubkeys(w)
      OBVIOUS
    <3> HIDE DEF w, q
    <3>3. CASE w = <<>>
      <4>1. q = <<"all">>
        BY <3>2, <3>3 DEF Pubkeys
      <4>2. QED  BY <4>1
    <3>4. CASE w # <<>>
      <4>1. q = w
        BY <3>2, <3>4 DEF Pubkeys
      <4>2. QED  BY <3>1, <4>1
    <3>5. QED  BY <3>3, <3>4
  <2> HIDE DEF q
  <2>2. q \in Seq(Range(q))
    BY <2>1 DEF Range
  <2>3. QED  BY <2>2 DEF IsList, q
<1>9. QED  BY <1>2, <1>8 DEF Keys, a

\* The listing is counted as far as it goes.
LEMMA ListTells ==
  ASSUME TellInv, NEW d \in Daemons, List(d)
  PROVE  Leaves(d) /\ Telling(d)'
<1>0. /\ phase[d] = "list" /\ phase' = [phase EXCEPT ![d] = "drives"]
      /\ args' = args /\ servers' = servers
  BY DEF List, Goto
<1>1. /\ phase = [e \in Daemons |-> phase[e]] /\ Alive(d)
      /\ built = [e \in Daemons |-> built[e]] /\ heard = [e \in Daemons |-> heard[e]]
      /\ IsBuilt(built[d]) /\ IsHeard(heard[d]) /\ servers[d] \in Seq(WebUrls)
  BY <1>0 DEF TellInv, ServerInv, ArgsInv, TypeInv, Typed, Forms, Telling, Building, Served, Alive, Off
<1> DEFINE max == args[d].max_blobs
           cut(a) == IF max > 0 /\ Len(a.is) > max
                     THEN [a EXCEPT !.is = SubSeq(@, 1, max)] ELSE a
           ks == Keys(d)
           urls == servers[d]
<1>2. CASE servers[d] = <<>>
  <2>1. heard' = heard /\ built' = built
    BY <1>2 DEF List
  <2>2. Leaves(d) /\ phase'[d] = "drives"
    BY <1>0, <1>1, <2>1 DEF Leaves, Untouched, Forms
  <2>3. QED  BY <1>0, <1>1, <1>2, <2>1, <2>2 DEF Telling, CutTold
<1>3. CASE servers[d] # <<>>
  <2> DEFINE answers(l) == [p \in Range(Pubkeys(ks)) |-> [u \in Range(urls) |-> cut(l[p][u])]]
             B(l) == AddServers(built[d], ks, urls, answers(l))
  <2>1. PICK l \in Listings :
          /\ heard' = [heard EXCEPT ![d].listings = l]
          /\ built' = [built EXCEPT ![d] = B(l)]
    <3>1. List(d)
      OBVIOUS
    <3>2. QED  BY <1>3, <3>1 DEF List, Builds
  <2>2. /\ IsList(Pubkeys(ks)) /\ max \in Nat
        /\ \A pk \in Range(Pubkeys(ks)), u \in WebUrls : IsAnswer(l[pk][u])
    BY <1>1, KeysAsked
  <2>3. Range(urls) \subseteq WebUrls
    BY <1>1 DEF Range
  <2>4. ASSUME NEW a, IsAnswer(a)
        PROVE  /\ IsList(cut(a).is) /\ cut(a).ok = a.ok
               /\ max \in 1 .. Len(a.is) - 1 => Len(cut(a).is) = max
               /\ Range(cut(a).is) \subseteq Range(a.is) /\ Range(a.is) \subseteq DOMAIN Desc
    <3>0. Range(a.is) \subseteq DOMAIN Desc
      BY <2>4 DEF IsAnswer
    <3>1. a = [ok |-> a.ok, is |-> a.is] /\ a.is \in Seq(Range(a.is))
      BY <2>4 DEF IsAnswer, IsList
    <3>2. CASE ~(max > 0 /\ Len(a.is) > max)
      BY <2>2, <2>4, <3>0, <3>1, <3>2 DEF IsAnswer
    <3>3. CASE max > 0 /\ Len(a.is) > max
      <4> DEFINE s == a.is
                 t == SubSeq(s, 1, max)
                 R == Range(s)
      <4>1. cut(a).is = t /\ cut(a).ok = a.ok
        BY <3>1, <3>3
      <4>2. /\ Len(t) = max /\ DOMAIN t = 1 .. max /\ t = [k \in 1 .. max |-> t[k]]
            /\ \A k \in 1 .. max : t[k] = s[k] /\ k \in 1 .. Len(s)
        <5>1. s \in Seq(R) /\ max \in 1 .. Len(s)
          BY <2>2, <3>1, <3>3
        <5> HIDE DEF s, R, max
        <5>2. QED  BY <5>1
      <4>3. DOMAIN s = 1 .. Len(s)
        BY <3>1
      <4> HIDE DEF t, max, s
      <4>4. Range(t) \subseteq Range(s)
        BY <4>2, <4>3 DEF Range
      <4>5. t \in Seq(Range(t))
        BY <2>2, <4>2 DEF Range, max
      <4>6. IsList(t)
        BY <4>5 DEF IsList
      <4>7. QED  BY <3>0, <4>1, <4>2, <4>4, <4>6 DEF s
    <3>4. QED  BY <3>2, <3>3
  <2> HIDE DEF cut, max
  <2>5. \A pk \in Range(Pubkeys(ks)) : \A u \in Range(urls) : Described(answers(l)[pk][u])
    <3>1. ASSUME NEW pk \in Range(Pubkeys(ks)), NEW u \in Range(urls)
          PROVE  Described(answers(l)[pk][u])
      <4>1. IsAnswer(l[pk][u]) /\ answers(l)[pk][u] = cut(l[pk][u])
        BY <2>2, <2>3
      <4>2. Described(cut(l[pk][u]))
        BY <2>4, <4>1 DEF Described
      <4>3. QED  BY <4>1, <4>2
    <3>2. QED  BY <3>1
  <2>6. urls \in Seq(Range(urls))
    BY <1>1 DEF Range
  <2>7. /\ Grown(built[d], B(l))
        /\ \A pk \in Range(Pubkeys(ks)), u \in Range(urls) : Heeded(answers(l)[pk][u], B(l))
    <3> DEFINE U == Range(urls)
               w == answers(l)
    <3>1. urls \in Seq(U) /\ \A pk \in Range(Pubkeys(ks)) : \A u \in U : Described(w[pk][u])
      BY <2>5, <2>6
    <3> HIDE DEF U, w
    <3>2. /\ Grown(built[d], AddServers(built[d], ks, urls, w))
          /\ \A pk \in Range(Pubkeys(ks)), u \in Range(urls) :
               Heeded(w[pk][u], AddServers(built[d], ks, urls, w))
      <4> HIDE DEF ks, urls
      <4> QED  BY <1>1, <2>2, <3>1, ServersGrow
    <3>3. QED  BY <3>2 DEF w
  <2>8. PICK b : b = B(l)
    OBVIOUS
  <2>9. PICK h : h = [heard[d] EXCEPT !.listings = l]
    OBVIOUS
  <2>10. h.listings = l /\ IsHeard(h)
    BY <1>1, <2>9 DEF IsHeard
  <2> HIDE DEF B
  <2>11. /\ phase'[d] = "drives" /\ built'[d] = b /\ heard'[d] = h /\ Leaves(d)
    BY <1>0, <1>1, <2>1, <2>8, <2>9 DEF Leaves, Untouched, Forms
  <2>12. CutTold(d)'
    <3>1. Keys(d)' = ks /\ args'[d] = args[d] /\ servers'[d] = urls
      BY <1>0 DEF Keys
    <3>2. SUFFICES ASSUME NEW pk \in Range(Pubkeys(ks)), NEW u \in Range(urls),
                          l[pk][u].ok, max \in 1 .. Len(l[pk][u].is) - 1,
                          \A x \in Range(l[pk][u].is) : Validates(x)
                   PROVE  Capped(b, max)
      BY <2>10, <2>11, <3>1 DEF CutTold, max
    <3>3. IsAnswer(l[pk][u])
      BY <2>2, <2>3
    <3>4. answers(l)[pk][u] = cut(l[pk][u])
      OBVIOUS
    <3>5. Heeded(cut(l[pk][u]), b)
      BY <2>7, <2>8, <3>4
    <3>6. max <= b.count
      BY <2>4, <3>2, <3>3, <3>5 DEF Heeded
    <3>7. b.count \in Nat
      BY <2>7, <2>8 DEF Grown, IsBuilt
    <3>8. QED  BY <2>2, <3>2, <3>6, <3>7 DEF Capped
  <2>13. QED  BY <2>7, <2>8, <2>10, <2>11, <2>12 DEF Telling, Grown
<1>4. QED  BY <1>2, <1>3

\* What a source's answer is noted as leaves the listings.
LEMMA Noted ==
  ASSUME NEW h, IsHeard(h), NEW what, NEW a, NEW v
  PROVE  /\ IsHeard([h EXCEPT !.answers[what] = a])
         /\ "saved" \in DOMAIN v => IsHeard([h EXCEPT !.answers = v])
         /\ what = "saved" => [h EXCEPT !.answers[what] = a].answers["saved"] = a
         /\ [h EXCEPT !.answers[what] = a].listings = h.listings
         /\ [h EXCEPT !.answers = v].listings = h.listings
BY DEF IsHeard

\* The end of a process.
LEMMA EndTells ==
  ASSUME TellInv, NEW d \in Daemons, Ends(d)
  PROVE  Leaves(d) /\ Telling(d)'
<1>1. /\ phase = [e \in Daemons |-> phase[e]] /\ servers = [e \in Daemons |-> servers[e]]
      /\ args = [e \in Daemons |-> args[e]]
      /\ built = [e \in Daemons |-> built[e]] /\ heard = [e \in Daemons |-> heard[e]]
  BY DEF TellInv, ServerInv, ArgsInv, TypeInv, Typed, Functional, Forms
<1>2. /\ phase' = [phase EXCEPT ![d] = "off"] /\ args' = [args EXCEPT ![d] = NoArgs]
      /\ servers' = [servers EXCEPT ![d] = <<>>]
      /\ built' = [built EXCEPT ![d] = NoTree] /\ heard' = [heard EXCEPT ![d] = NoHeard]
  BY DEF Ends, Goto
<1>3. Leaves(d) /\ phase'[d] = "off"
  <2> HIDE DEF NoTree, NoHeard, NoArgs
  <2> QED  BY <1>1, <1>2 DEF Leaves, Untouched, Forms
<1>4. QED  BY <1>3 DEF Telling, Building, AfterList

\* A start has counted nothing.
LEMMA LaunchTells ==
  ASSUME TellInv, NEW d \in Daemons, NEW l \in plan[d], Launch(d, l)
  PROVE  Leaves(d) /\ Telling(d)'
<1> DEFINE a == LoadMerged(l.flags, l.file, l.env)
<1>1. /\ phase = [e \in Daemons |-> phase[e]] /\ servers = [e \in Daemons |-> servers[e]]
      /\ args = [e \in Daemons |-> args[e]]
      /\ built = [e \in Daemons |-> built[e]] /\ heard = [e \in Daemons |-> heard[e]]
  BY DEF TellInv, ServerInv, ArgsInv, TypeInv, Typed, Functional, Forms
<1>2. \/ UNCHANGED <<phase, args, servers, built, heard>>
      \/ /\ phase' = [phase EXCEPT ![d] = "servers"]
         /\ args' = [args EXCEPT ![d] = a] /\ servers' = [servers EXCEPT ![d] = a.server]
         /\ built' = [built EXCEPT ![d] = Empty] /\ heard' = [heard EXCEPT ![d] = NoHeard]
  BY DEF Launch, Goto
<1> HIDE DEF a
<1>3. CASE UNCHANGED <<phase, args, servers, built, heard>>
  BY <1>1, <1>3, UntouchedTell DEF Leaves, Untouched, Forms, TellInv
<1>4. CASE ~UNCHANGED <<phase, args, servers, built, heard>>
  <2>1. Leaves(d) /\ phase'[d] = "servers" /\ built'[d] = Empty /\ heard'[d] = NoHeard
    BY <1>1, <1>2, <1>4 DEF Leaves, Untouched, Forms
  <2>2. IsBuilt(Empty) /\ IsHeard(NoHeard)
    BY NewStands DEF IsBuilt, Empty, IsHeard, NoHeard, Unheard
  <2>3. QED  BY <2>1, <2>2 DEF Telling, Building, AfterList
<1>5. QED  BY <1>3, <1>4

\* Every step of a start.
LEMMA StartTells ==
  ASSUME TellInv, NEW d \in Daemons, StartStep(d)
  PROVE  Leaves(d) /\ Telling(d)'
<1>0. /\ \A e \in Daemons : Telling(e)
      /\ built = [e \in Daemons |-> built[e]] /\ heard = [e \in Daemons |-> heard[e]]
      /\ servers = [e \in Daemons |-> servers[e]] /\ phase = [e \in Daemons |-> phase[e]]
  BY DEF TellInv, ServerInv, ArgsInv, TypeInv, Typed, Functional, Forms
<1>3. phase[d] \in Building => IsBuilt(built[d]) /\ IsHeard(heard[d]) /\ Grown(built[d], built[d])
  BY <1>0, GrownYet DEF Telling
<1>4. CASE Discover(d)
  <2>1. \E a, S, B :
          /\ heard' = [heard EXCEPT ![d].answers["servers"] = a]
          /\ servers' = [servers EXCEPT ![d] = S]
          /\ built' = [built EXCEPT ![d] = B] /\ (B = built[d] \/ B = [built[d] EXCEPT !.tree = AddDirectory(@, Root, "public")])
    <3>1. PICK a \in ServerEvents \union {NoAnswer} :
            LET found == IF a.ok THEN ServerUrls(a.is) ELSE <<>>
                all   == EffectiveServers(args[d].server, found)
            IN
            /\ Hears(d, "servers", a)
            /\ servers' = [servers EXCEPT ![d] = all]
            /\ Builds(d, IF args[d].manifest # Unset \/ all # <<>>
                         THEN [built[d] EXCEPT !.tree = AddDirectory(@, Root, "public")]
                         ELSE built[d])
      BY <1>4 DEF Discover
    <3>2. PICK all : /\ Hears(d, "servers", a)
                     /\ servers' = [servers EXCEPT ![d] = all]
                     /\ Builds(d, IF args[d].manifest # Unset \/ all # <<>>
                         THEN [built[d] EXCEPT !.tree = AddDirectory(@, Root, "public")]
                         ELSE built[d])
      BY <3>1
    <3>3. PICK B : /\ B = built[d] \/ B = [built[d] EXCEPT !.tree = AddDirectory(@, Root, "public")]
                   /\ Builds(d, B)
      BY <3>2
    <3>4. QED  BY <3>2, <3>3 DEF Hears, Builds
  <2>2. /\ phase[d] = "servers" /\ phase' = [phase EXCEPT ![d] = "manifest"] /\ args' = args
    BY <1>4 DEF Discover, Goto
  <2> PICK a, S, B :
        /\ heard' = [heard EXCEPT ![d].answers["servers"] = a]
        /\ servers' = [servers EXCEPT ![d] = S]
        /\ built' = [built EXCEPT ![d] = B] /\ (B = built[d] \/ B = [built[d] EXCEPT !.tree = AddDirectory(@, Root, "public")])
    BY <2>1
  <2>3. IsBuilt(B)
    <3>1. IsBuilt(built[d]) /\ Standing(built[d].tree)
      BY <1>3, <2>2 DEF IsBuilt, Building
    <3>2. Taller(built[d].tree, AddDirectory(built[d].tree, Root, "public"))
      BY <3>1, RootAdds DEF Generated
    <3> DEFINE t == AddDirectory(built[d].tree, Root, "public")
    <3>3. B = built[d] \/ B = [built[d] EXCEPT !.tree = t]
      BY <2>1
    <3> HIDE DEF t
    <3>4. Grown(built[d], [built[d] EXCEPT !.tree = t])
      BY <3>1, <3>2, OneMore DEF t
    <3>5. QED  BY <3>1, <3>3, <3>4 DEF Grown
  <2>4. PICK H : H = [heard[d] EXCEPT !.answers["servers"] = a]
    OBVIOUS
  <2>5. IsHeard(H) /\ heard' = [heard EXCEPT ![d] = H]
    BY <1>3, <2>1, <2>2, <2>4, Noted DEF Building
  <2>6. "manifest" \notin AfterList /\ "manifest" # "pay"
    BY DEF AfterList
  <2>7. QED  BY <2>1, <2>2, <2>3, <2>5, <2>6, EarlyTells
<1>5. CASE Manifest(d)
  <2>0. phase[d] = "manifest" /\ "manifest" \in Building /\ "list" \notin AfterList /\ "list" \in Building
    BY <1>5 DEF Manifest, Building, AfterList
  <2>1. CASE args[d].manifest = Unset
    <3>1. phase' = [phase EXCEPT ![d] = "list"] /\ UNCHANGED <<args, servers, built, heard>>
      BY <1>5, <2>1 DEF Manifest, Goto, startVars
    <3>2. Leaves(d) /\ phase'[d] = "list"
      BY <1>0, <3>1 DEF Leaves, Untouched, Forms
    <3>3. QED  BY <1>3, <2>0, <3>1, <3>2 DEF Telling
  <2>2. CASE Ends(d)
    BY <2>2, EndTells
  <2>3. ASSUME NEW a \in Manifests, Goto(d, "list"), Hears(d, "manifest", a),
               Builds(d, AddManifest(built[d], a.is)), UNCHANGED <<args, servers>>
        PROVE  Leaves(d) /\ Telling(d)'
    <3>1. Grown(built[d], AddManifest(built[d], a.is))
      <4>1. IsList(a.is) /\ Range(a.is) \subseteq DOMAIN Desc
        BY AnswerAssumption DEF Listed
      <4>2. QED  BY <1>3, <2>0, <4>1, ManifestGrows
    <3>2. PICK B : B = AddManifest(built[d], a.is)
      OBVIOUS
    <3>3. PICK H : H = [heard[d] EXCEPT !.answers["manifest"] = a]
      OBVIOUS
    <3>4. IsHeard(H) /\ heard' = [heard EXCEPT ![d] = H] /\ built' = [built EXCEPT ![d] = B] /\ IsBuilt(B)
      BY <1>3, <2>0, <2>3, <3>1, <3>2, <3>3, Noted DEF Hears, Builds, Grown
    <3>5. Leaves(d) /\ phase'[d] = "list" /\ built'[d] = B /\ heard'[d] = H
      BY <1>0, <2>3, <3>4 DEF Leaves, Untouched, Forms, Goto
    <3>6. QED  BY <2>0, <3>4, <3>5 DEF Telling
  <2>4. \/ args[d].manifest = Unset \/ Ends(d)
        \/ \E a \in Manifests : /\ Goto(d, "list") /\ Hears(d, "manifest", a)
                                /\ Builds(d, AddManifest(built[d], a.is))
                                /\ UNCHANGED <<args, servers>>
    BY <1>5 DEF Manifest
  <2>5. QED  BY <2>1, <2>2, <2>3, <2>4
<1>6. CASE List(d)
  BY <1>6, ListTells
<1>7. CASE Drives(d)
  <2>1. PICK a \in DriveEvents \union {NoAnswer} :
          /\ Hears(d, "drives", a)
          /\ Builds(d, IF Fetched(a) THEN AddDrives(built[d], Keys(d)[1], a.is) ELSE built[d])
    BY <1>7 DEF Drives
  <2>2. /\ phase[d] = "drives" /\ phase' = [phase EXCEPT ![d] = "meta"] /\ args' = args /\ servers' = servers
        /\ "drives" \in Building /\ "drives" \in AfterList /\ "meta" \in AfterList
    BY <1>7 DEF Drives, Goto, Building, AfterList
  <2>3. PICK B : B = IF Fetched(a) THEN AddDrives(built[d], Keys(d)[1], a.is) ELSE built[d]
    OBVIOUS
  <2>4. PICK H : H = [heard[d] EXCEPT !.answers["drives"] = a]
    OBVIOUS
  <2>5. Grown(built[d], B)
    <3>1. CASE ~Fetched(a)
      BY <1>3, <2>2, <2>3, <3>1
    <3>2. CASE Fetched(a)
      <4>1. a \in DriveEvents
        BY <3>2 DEF Fetched, NoAnswer
      <4>2. /\ IsList(a.is)
            /\ \A k \in DOMAIN a.is :
                 /\ IsList(a.is[k])
                 /\ \A g \in Range(a.is[k]) : IsEntry(g) => IsList(IF g[1] = "x" THEN g[3] ELSE g[2])
        BY <4>1, AnswerAssumption DEF Listed
      <4>3. QED  BY <1>3, <2>2, <2>3, <3>2, <4>2, DrivesGrow
    <3>3. QED  BY <3>1, <3>2
  <2>6. IsHeard(H) /\ H.listings = heard[d].listings
    BY <1>3, <2>2, <2>4, Noted
  <2>7. heard' = [heard EXCEPT ![d] = H] /\ built' = [built EXCEPT ![d] = B]
    BY <2>1, <2>3, <2>4 DEF Hears, Builds
  <2>8. QED  BY <2>2, <2>5, <2>6, <2>7, GrownTells
<1>8. CASE Metadata(d)
  <2>1. PICK a \in MetaEvents \union {NoAnswer} :
          /\ Hears(d, "meta", a)
          /\ Builds(d, IF Fetched(a) THEN AddNip94(built[d], Keys(d)[1], a.is) ELSE built[d])
    BY <1>8 DEF Metadata
  <2>2. /\ phase[d] = "meta" /\ phase' = [phase EXCEPT ![d] = "repos"] /\ args' = args /\ servers' = servers
        /\ "meta" \in Building /\ "meta" \in AfterList /\ "repos" \in AfterList
    BY <1>8 DEF Metadata, Goto, Building, AfterList
  <2>3. PICK B : B = IF Fetched(a) THEN AddNip94(built[d], Keys(d)[1], a.is) ELSE built[d]
    OBVIOUS
  <2>4. PICK H : H = [heard[d] EXCEPT !.answers["meta"] = a]
    OBVIOUS
  <2>5. Grown(built[d], B)
    <3>1. CASE ~Fetched(a)
      BY <1>3, <2>2, <2>3, <3>1
    <3>2. CASE Fetched(a)
      <4>1. a \in MetaEvents
        BY <3>2 DEF Fetched, NoAnswer
      <4>2. IsList(a.is)
        BY <4>1, AnswerAssumption DEF Listed
      <4>3. QED  BY <1>3, <2>2, <2>3, <3>2, <4>2, MetadataGrows
    <3>3. QED  BY <3>1, <3>2
  <2>6. IsHeard(H) /\ H.listings = heard[d].listings
    BY <1>3, <2>2, <2>4, Noted
  <2>7. heard' = [heard EXCEPT ![d] = H] /\ built' = [built EXCEPT ![d] = B]
    BY <2>1, <2>3, <2>4 DEF Hears, Builds
  <2>8. QED  BY <2>2, <2>5, <2>6, <2>7, GrownTells
<1>9. CASE Repos(d)
  <2> DEFINE pk == RepoKey(args[d].nip34_pubkey)
             clone == args[d].nip34_clone
  <2>1. PICK r \in RepoEvents \union {NoAnswer}, e \in IssueEvents \union {NoAnswer} :
          /\ heard' = [heard EXCEPT ![d].answers = [@ EXCEPT !["repos"] = r, !["issues"] = e]]
          /\ Builds(d, IF r.ok /\ e.ok THEN AddNip34(built[d], pk, r.is, e.is, clone) ELSE built[d])
    BY <1>9 DEF Repos
  <2>2. /\ phase[d] = "repos" /\ phase' = [phase EXCEPT ![d] = "files"] /\ args' = args /\ servers' = servers
        /\ "repos" \in Building /\ "repos" \in AfterList /\ "files" \in AfterList
    BY <1>9 DEF Repos, Goto, Building, AfterList
  <2>3. PICK B : B = IF r.ok /\ e.ok THEN AddNip34(built[d], pk, r.is, e.is, clone) ELSE built[d]
    OBVIOUS
  <2>4. PICK w : w = [heard[d].answers EXCEPT !["repos"] = r, !["issues"] = e]
    OBVIOUS
  <2>5. PICK H : H = [heard[d] EXCEPT !.answers = w]
    OBVIOUS
  <2>6. Grown(built[d], B)
    <3>1. CASE ~(r.ok /\ e.ok)
      BY <1>3, <2>2, <2>3, <3>1
    <3>2. CASE r.ok /\ e.ok
      <4>1. r \in RepoEvents /\ e \in IssueEvents
        BY <3>2 DEF NoAnswer
      <4>2. IsList(r.is) /\ IsList(e.is)
        BY <4>1, AnswerAssumption DEF Listed
      <4> HIDE DEF pk, clone
      <4>3. QED  BY <1>3, <2>2, <2>3, <3>2, <4>2, ReposGrow
    <3>3. QED  BY <3>1, <3>2
  <2>7. IsHeard(H) /\ H.listings = heard[d].listings
    <3>1. IsHeard(heard[d])
      BY <1>3, <2>2
    <3>2. "saved" \in DOMAIN w
      BY <2>4, <3>1 DEF IsHeard
    <3>3. QED  BY <2>5, <3>1, <3>2, Noted
  <2>8. heard' = [heard EXCEPT ![d] = H] /\ built' = [built EXCEPT ![d] = B]
    BY <2>1, <2>3, <2>4, <2>5 DEF Builds
  <2>9. QED  BY <2>2, <2>6, <2>7, <2>8, GrownTells
<1>10. CASE Files(d)
  <2>1. CASE Ends(d)
    BY <2>1, EndTells
  <2>2. CASE ~Ends(d)
    <3>1. /\ phase[d] = "files" /\ phase' = [phase EXCEPT ![d] = "keys"]
          /\ args' = args /\ servers' = servers /\ heard' = heard
          /\ built' = [built EXCEPT ![d] = [built[d] EXCEPT !.tree =
                         AddStaticFile(AddStaticFile(@, Root, "README.txt"), Root, "STATUS.txt")]]
      BY <1>10, <2>2 DEF Files, Goto, Builds
    <3>2. PICK t : /\ t = AddStaticFile(AddStaticFile(built[d].tree, Root, "README.txt"),
                             Root, "STATUS.txt")
                   /\ built' = [built EXCEPT ![d] = [built[d] EXCEPT !.tree = t]]
      BY <3>1
    <3>3. PICK B : B = [built[d] EXCEPT !.tree = t]
      OBVIOUS
    <3>4. PICK H : H = heard[d]
      OBVIOUS
    <3>5. "files" \in Building /\ "files" \in AfterList /\ "keys" \in AfterList
      BY DEF Building, AfterList
    <3>6. Grown(built[d], B) /\ IsHeard(H) /\ H.listings = heard[d].listings
      <4> DEFINE v == built[d].tree
                 u == AddStaticFile(v, Root, "README.txt")
      <4>1. IsBuilt(built[d]) /\ Standing(v) /\ IsHeard(H) /\ H.listings = heard[d].listings
        BY <1>3, <3>1, <3>4, <3>5 DEF IsBuilt
      <4>2. t = AddStaticFile(u, Root, "STATUS.txt")
        BY <3>2
      <4> HIDE DEF v
      <4>3. Taller(v, u)
        BY <4>1, RootAdds DEF Generated
      <4> HIDE DEF u
      <4>4. Taller(u, t)
        <5>1. Standing(u)
          BY <4>3 DEF Taller
        <5>2. QED  BY <4>2, <5>1, RootAdds DEF Generated
      <4>5. Taller(built[d].tree, t)
        BY <4>3, <4>4, TallerYet DEF v
      <4>6. QED  BY <3>3, <4>1, <4>5, OneMore
    <3>7. heard' = [heard EXCEPT ![d] = H] /\ built' = [built EXCEPT ![d] = B]
      BY <1>0, <3>1, <3>2, <3>3, <3>4
    <3>8. QED  BY <3>1, <3>5, <3>6, <3>7, GrownTells
  <2>3. QED  BY <2>1, <2>2
<1>11. CASE ReadKeys(d) \/ ChoosePayment(d) \/ Ready(d)
  <2>1. \E q : /\ q \notin Building \/ (q = "saved" /\ phase[d] = "keys")
               /\ q \notin AfterList /\ q # "pay" /\ phase' = [phase EXCEPT ![d] = q]
               /\ UNCHANGED <<args, servers, built, heard>>
    BY <1>11 DEF ReadKeys, ChoosePayment, Ready, Goto, Building, AfterList, startVars
  <2>2. PICK q : /\ q \notin Building \/ (q = "saved" /\ phase[d] = "keys")
                 /\ q \notin AfterList /\ q # "pay" /\ phase' = [phase EXCEPT ![d] = q]
                 /\ UNCHANGED <<args, servers, built, heard>>
    BY <2>1
  <2>3. Leaves(d) /\ phase'[d] = q
    BY <1>0, <2>2 DEF Leaves, Untouched, Forms
  <2>4. built'[d] = built[d] /\ heard'[d] = heard[d]
    BY <2>2
  <2>5. q = "saved" /\ phase[d] = "keys" => IsBuilt(built[d]) /\ IsHeard(heard[d])
    BY <1>3 DEF Building
  <2>6. QED  BY <2>2, <2>3, <2>4, <2>5 DEF Telling
<1>12. CASE Restore(d)
  <2>1. PICK a \in SavedEvents \union {NoAnswer} :
          LET saved == IF a.ok THEN FetchPersistEvent(a.is, args[d].persist) ELSE NoAnswer IN
          /\ Hears(d, "saved", a)
          /\ Builds(d, IF saved.ok THEN [built[d] EXCEPT !.tree = ApplyPersisted(@, Applied(saved.is))]
                       ELSE built[d])
    BY <1>12 DEF Restore
  <2>2. /\ phase[d] = "saved" /\ phase' = [phase EXCEPT ![d] = "pay"]
        /\ UNCHANGED <<args, servers>> /\ "pay" \notin Building /\ "pay" \notin AfterList
        /\ "saved" \in Building
    BY <1>12 DEF Restore, Goto, Building, AfterList
  <2>3. IsBuilt(built[d]) /\ Standing(built[d].tree) /\ IsHeard(heard[d])
    BY <1>3, <2>2 DEF IsBuilt
  <2> DEFINE name == args[d].persist
             saved == IF a.ok THEN FetchPersistEvent(a.is, name) ELSE NoAnswer
             t == built[d].tree
             u == IF saved.ok THEN ApplyPersisted(t, Applied(saved.is)) ELSE t
  <2>4. PICK B : B = IF saved.ok THEN [built[d] EXCEPT !.tree = ApplyPersisted(@, Applied(saved.is))]
                     ELSE built[d]
    OBVIOUS
  <2>5. PICK H : H = [heard[d] EXCEPT !.answers["saved"] = a]
    OBVIOUS
  <2>6. built' = [built EXCEPT ![d] = B] /\ heard' = [heard EXCEPT ![d] = H]
    BY <2>1, <2>4, <2>5 DEF Hears, Builds
  <2>7. B.tree = u
    BY <2>3, <2>4 DEF IsBuilt
  <2>8. u = Restored(t, a, name)
    BY DEF Restored
  <2>9. Shown(Restored(t, a, name)) = Structure(a.is, name)
    <3> HIDE DEF t, name
    <3>1. Standing(t)
      BY <2>3 DEF t
    <3>2. QED  BY <2>1, <3>1, Restores
  <2>10. H.answers["saved"] = a
    BY <2>3, <2>5, Noted
  <2> HIDE DEF u, t
  <2>11. Leaves(d) /\ phase'[d] = "pay" /\ built'[d] = B /\ heard'[d] = H /\ args'[d] = args[d]
    BY <1>0, <2>2, <2>6 DEF Leaves, Untouched, Forms
  <2>12. Brought(d)'
    BY <2>7, <2>8, <2>9, <2>10, <2>11 DEF Brought
  <2>13. QED  BY <2>2, <2>11, <2>12 DEF Telling
<1>13. CASE Mounted(d)
  <2>1. /\ phase' = [phase EXCEPT ![d] = "up"] /\ UNCHANGED <<args, servers>>
        /\ built' = [built EXCEPT ![d] = NoTree] /\ heard' = [heard EXCEPT ![d] = NoHeard]
    BY <1>13 DEF Mounted, Goto
  <2>2. Leaves(d) /\ phase'[d] = "up"
    <3> HIDE DEF NoTree, NoHeard
    <3> QED  BY <1>0, <2>1 DEF Leaves, Untouched, Forms
  <2>3. QED  BY <2>2 DEF Telling, Building, AfterList
<1>14. CASE MountFails(d)
  BY <1>14, EndTells DEF MountFails
<1>15. QED
  BY <1>4, <1>5, <1>6, <1>7, <1>8, <1>9, <1>10, <1>11, <1>12, <1>13, <1>14 DEF StartStep

\* At first no daemon has anything to tell.
LEMMA InitTells == Init => TellInv
<1> SUFFICES ASSUME Init PROVE TellInv
  OBVIOUS
<1>1. ServerInv
  BY InitServers
<1>2. Forms /\ \A d \in Daemons : Telling(d)
  BY DEF Init, Forms, Telling, Building, AfterList
<1>3. QED  BY <1>1, <1>2 DEF TellInv

\* Every step keeps it.
LEMMA NextTells == TellInv /\ [Next]_vars => TellInv'
<1> SUFFICES ASSUME TellInv, [Next]_vars PROVE TellInv'
  OBVIOUS
<1> DEFINE Goal == Forms' /\ \A d \in Daemons : Telling(d)'
<1>1. ServerInv'
  BY NextServers DEF TellInv
<1>2. ASSUME NEW d \in Daemons, Leaves(d), Telling(d)' PROVE Goal
  <2>1. ASSUME NEW e \in Daemons PROVE Telling(e)'
    <3>1. CASE e = d
      BY <1>2, <3>1
    <3>2. CASE e # d
      BY <1>2, <3>2, UntouchedTell DEF Leaves, TellInv
    <3>3. QED  BY <3>1, <3>2
  <2>2. QED  BY <1>2, <2>1 DEF Leaves
<1>3. ASSUME UNCHANGED <<phase, args, servers, built, heard>> PROVE Goal
  <2>1. Forms'
    BY <1>3 DEF TellInv, Forms
  <2>2. ASSUME NEW d \in Daemons PROVE Telling(d)'
    BY <1>3, UntouchedTell DEF TellInv, Untouched
  <2>3. QED  BY <2>1, <2>2
<1>4. CASE UNCHANGED vars
  <2>1. Goal
    BY <1>3, <1>4 DEF vars, startVars
  <2>2. QED  BY <1>1, <2>1 DEF TellInv
<1>5. CASE Next
  <2>1. ASSUME NEW d \in Daemons, NEW l \in plan[d], Launch(d, l) PROVE Goal
    BY <1>2, <2>1, LaunchTells
  <2>2. ASSUME NEW d \in Daemons, StartStep(d) PROVE Goal
    BY <1>2, <2>2, StartTells
  <2>3. ASSUME NEW d \in Daemons, Exit(d) \/ Kill(d) PROVE Goal
    BY <1>2, <2>3, EndTells DEF Exit, Kill
  <2>4. ASSUME NEW d \in Daemons, Unmounted(d) PROVE Goal
    <3>1. /\ phase' = [phase EXCEPT ![d] = "publish"] /\ UNCHANGED <<args, servers, built, heard>>
          /\ phase = [e \in Daemons |-> phase[e]]
      BY <2>4 DEF Unmounted, Goto, startVars, TellInv, ServerInv, ArgsInv, TypeInv, Typed
    <3>2. Leaves(d) /\ phase'[d] = "publish"
      BY <3>1 DEF TellInv, Leaves, Untouched, Forms
    <3>3. Telling(d)'
      BY <3>2 DEF Telling, Building, AfterList
    <3>4. QED  BY <1>2, <3>2, <3>3
  <2>5. ASSUME NEW d \in Daemons, RemoveSocket(d) \/ Bind(d) PROVE Goal
    BY <1>3, <2>5 DEF RemoveSocket, Bind, startVars
  <2>6. ASSUME Command \/ \E c \in Dirs : Connect(c) PROVE Goal
    BY <1>3, <2>6 DEF Command, Connect, startVars
  <2>7. Goal
    <3> HIDE DEF Goal
    <3> QED  BY <1>5, <2>1, <2>2, <2>3, <2>4, <2>5, <2>6 DEF Next
  <2>8. QED  BY <1>1, <2>7 DEF TellInv
<1>6. QED  BY <1>4, <1>5

\* STATUS.txt says of a listing that was cut that it was, and warns of exactly
\* the blobs that end within seven days, whatever the sources answer
\* (vfiles.rs, collect_expiring_blobs).
THEOREM StatusIsTold == Spec => []StatusTold
<1>1. TellInv => CappedTold
  BY DEF TellInv, Telling, CutTold, CappedTold, AfterList
<1>2. ExpiringTold
  <2> SUFFICES ASSUME NEW d \in Daemons
               PROVE  LET shown == {b \in DOMAIN Desc : \E i \in DOMAIN built[d].tree :
                                      IsFile(built[d].tree, i) /\ built[d].tree[i].content = b}
                      IN  {built[d].tree[i].content : i \in Expiring(built[d].tree, Now, 7 * 86400)}
                            = {b \in shown : Desc[b].ends > Now /\ Desc[b].ends - Now <= 7 * 86400}
    BY DEF ExpiringTold
  <2>1. \A b \in DOMAIN Desc :
          Desc[b].ends \in Now + 1 .. Now + 7 * 86400
            <=> Desc[b].ends > Now /\ Desc[b].ends - Now <= 7 * 86400
    BY TimeAssumption
  <2> DEFINE t == built[d].tree
             soon(b) == Desc[b].ends \in Now + 1 .. Now + 7 * 86400
  <2>2. Expiring(t, Now, 7 * 86400)
          = {i \in DOMAIN t : /\ t[i].kind = "file" /\ t[i].content \in DOMAIN Desc
                              /\ soon(t[i].content)}
    BY DEF Expiring
  <2> HIDE DEF t, soon
  <2>3. {t[i].content : i \in Expiring(t, Now, 7 * 86400)}
          = {b \in DOMAIN Desc : /\ \E i \in DOMAIN t : IsFile(t, i) /\ t[i].content = b
                                 /\ soon(b)}
    BY <2>2 DEF IsFile
  <2>4. QED  BY <2>1, <2>3 DEF t, soon
<1>3. TellInv => StatusTold
  BY <1>1, <1>2 DEF StatusTold
<1>4. QED  BY <1>3, InitTells, NextTells, PTL DEF Spec

\* --persist brings back the directories and files of the drive as they were
\* published last, each at its path and no others, whatever the sources and the relays
\* answer (fetch_persist_event, apply_persisted).
THEOREM RestoredIsExact == Spec => []RestoredExact
<1>1. TellInv => RestoredExact
  <2> SUFFICES ASSUME TellInv, NEW d \in Daemons, phase[d] = "pay" PROVE Brought(d)
    BY DEF RestoredExact, Brought, Shown
  <2>1. QED  BY DEF TellInv, Telling
<1>2. QED  BY <1>1, InitTells, NextTells, PTL DEF Spec
=============================================================================
