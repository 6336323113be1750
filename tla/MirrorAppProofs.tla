-------------------------- MODULE MirrorAppProofs --------------------------
(***************************************************************************)
(* Proofs about MirrorApp, for any hosts, targets and topology, and any    *)
(* number of starts, errors and faults.                                    *)
(***************************************************************************)
EXTENDS MirrorApp, TLAPS

\* What is on the hosts, without what a start that went astray has left there.
KeptTaps == {x \in taps : x[2] \notin astray}
Pieces == {x \in ports \cup mirrors : x[2] \notin astray}

\* What the loops of post-start are about, and when an outcome is remembered.
Places ==
    /\ pc \in PostStartAt \cup RollbackAt => starts >= 1
    /\ pc = "tap" => target = 1
    /\ pc \in {"tap", "tunnel", "mirror"} => todo \subseteq schedule
    /\ pc \in {"tunnel", "mirror"} => target \in recorded
    /\ pc = "preMirrors" => todo = schedule
    /\ pc = "mirror" => ~dryrun
    /\ made => pc = "running"

\* From the launch to the end of post-start all there is on the hosts is of this start, and
\* nothing under a dry run; a rollback has still to visit what is left of it.
OfThisStart ==
    /\ pc \in {"launch", "begin"} => KeptTaps = {} /\ Pieces = {}
    /\ pc \in PostStartAt /\ dryrun => KeptTaps = {} /\ Pieces = {}
    /\ pc \in PostStartAt \cup RollbackAt =>
           /\ \A x \in KeptTaps : x[2] = starts /\ x[1] \in schedule
           /\ \A x \in Pieces : x[2] = starts /\ x[1] \in schedule /\ x[3] \in recorded
    /\ pc = "undoTaps" => \A x \in KeptTaps : x[1] \in todo
    /\ pc = "undoMirrors" => KeptTaps = {} /\ \A x \in Pieces : <<x[1], x[3]>> \in doomed

\* At any other time the saved status names it; pre-start has still to visit what is left.
OfTheStatus ==
    /\ pc \notin PostStartAt \cup RollbackAt =>
           /\ \A x \in KeptTaps : Named(x[1], x[2])
           /\ \A x \in Pieces : Named(x[1], x[2]) /\ x[3] \in status.mirrors
    /\ pc = "preMirrors" => \A x \in Pieces : <<x[1], x[3]>> \in doomed
    /\ pc = "preTap" => Pieces = {} /\ \A x \in KeptTaps : x[1] \in todo

ReachInv == TypeOK /\ Places /\ OfThisStart /\ OfTheStatus

\* What the saved names stand for.
NamedTaps == {x \in taps : x[2] = status.tap}
NamedPieces == {x \in ports \cup mirrors : x[2] = status.tap}

\* There is none of it but while the experiment runs for real, and then cleanup finds it all.
CleanedUp ==
    /\ pc \in PostStartAt \cup RollbackAt => status.tap < starts
    /\ pc \in PostStartAt => starts \notin astray
    /\ pc \notin {"running"} \cup CleanUpAt \/ (pc = "running" /\ dryrun) =>
           NamedTaps = {} /\ NamedPieces = {}
    /\ pc = "running" =>
           /\ \A x \in NamedTaps : x[1] \in schedule
           /\ \A x \in NamedPieces : x[1] \in schedule /\ x[3] \in status.mirrors
    /\ pc = "cleanMirrors" =>
           /\ \A x \in NamedTaps : x[1] \in todo
           /\ \A x \in NamedPieces : <<x[1], x[3]>> \in doomed
    /\ pc = "cleanTap" => NamedPieces = {} /\ \A x \in NamedTaps : x[1] \in todo

HarmlessInv == faults = 0 => CleanedUp

\* The mirrors post-start has made so far, when it is no dry run.
MadeSoFar ==
    (~dryrun /\ pc \in {"pick", "tunnel", "mirror"}) =>
        \A t \in Targets, h \in schedule :
            (/\ t < target \/ (t = target /\ pc # "pick" /\ h \notin todo)
             /\ Addressed(t) /\ <<t, h>> \in Seen)
                => <<h, starts, t>> \in mirrors \cap ports

MadeInv == TypeOK /\ Places /\ MadeSoFar /\ MadeIsComplete

-----------------------------------------------------------------------------
LEMMA PlacesInit == Init => TypeOK /\ Places
  <1> SUFFICES ASSUME Init PROVE TypeOK /\ Places
    OBVIOUS
  <1>1. made \in BOOLEAN /\ ~made /\ dryrun \in BOOLEAN /\ ~dryrun
    BY Zenon DEF Init
  <1>2. status \in [tap : 0 .. starts, mirrors : SUBSET Targets]
    BY DEF Init, NoStatus
  <1>3. configured \in 0 .. NumTargets /\ target \in 1 .. NumTargets + 1
    BY MirrorAssumption DEF Init
  <1>. QED
    BY <1>1, <1>2, <1>3
    DEF Init, TypeOK, Places, PreStartAt, PostStartAt, RollbackAt, CleanUpAt

\* A deleting loop takes away from what there is and stays where it is until it is through.
LEMMA DeletingSteps ==
    ASSUME TypeOK, Places,
           NEW here \in PreStartAt \cup RollbackAt \cup CleanUpAt, NEW n \in 0 .. starts,
           DeleteMirrors(here, n) \/ (here # "preMirrors" /\ DeleteTaps(here, n))
    PROVE  (TypeOK /\ Places)'
  <1> USE DEF TypeOK, Places, PreStartAt, PostStartAt, RollbackAt, CleanUpAt, Fault,
              experiment, DeleteMirrorFromHost
  <1>1. astray' \subseteq 0 .. starts
    BY DEF DeleteMirrors, DeleteTaps, Stray
  <1>6. faults' \in Nat
    BY MirrorAssumption DEF DeleteMirrors, DeleteTaps
  <1>2. taps' \subseteq taps /\ ports' \subseteq ports /\ mirrors' \subseteq mirrors
    BY DEF DeleteMirrors, DeleteTaps
  <1>3. todo' \subseteq todo /\ doomed' \subseteq doomed
    BY DEF DeleteMirrors, DeleteTaps
  <1>4. UNCHANGED <<experiment, pc, target, recorded, made, errors>>
    BY DEF DeleteMirrors, DeleteTaps
  <1>5. pc = "preMirrors" => todo' = todo
    BY DEF DeleteMirrors, DeleteTaps
  <1>. QED
    BY <1>1, <1>2, <1>3, <1>4, <1>5, <1>6

LEMMA PlacesStep == TypeOK /\ Places /\ [Next]_vars => (TypeOK /\ Places)'
  <1> SUFFICES ASSUME TypeOK, Places, [Next]_vars PROVE (TypeOK /\ Places)'
    OBVIOUS
  <1> USE MirrorAssumption
      DEF TypeOK, Places, PreStartAt, PostStartAt, RollbackAt, CleanUpAt, Targets,
          Fault, Fails, Stray, RollBack, Make, world, experiment, stage, history
  <1>0. status.tap \in 0 .. starts /\ starts \in 0 .. starts
    OBVIOUS
  <1>1. CASE Configure
    BY <1>1 DEF Configure
  <1>2. CASE Start
    <2>1. dryrun' \in BOOLEAN
      BY <1>2 DEF Start
    <2>. QED
      BY <1>2, <2>1 DEF Start
  <1>2a. CASE TapsCreated
    BY <1>2a DEF TapsCreated
  <1>3. CASE PreStart
    <2>0. faults' \in {faults, faults + 1} /\ astray' \in {astray, astray \cup {status.tap}}
      BY <1>3, Zenon DEF PreStart
    <2>1. astray' \subseteq 0 .. starts /\ faults' \in Nat
      BY <1>0, <2>0
    <2>2. doomed' \subseteq Hosts \X Targets
      BY <1>3 DEF PreStart
    <2>. QED
      BY <1>3, <2>1, <2>2 DEF PreStart
  <1>4. ASSUME NEW here, NEW next, MirrorsDeleted(here, next) \/ TapsDeleted(here, next),
               here \in PreStartAt \cup RollbackAt \cup CleanUpAt,
               next \in {"preTap", "launch", "cleanTap", "stopped", "running"}
        PROVE  (TypeOK /\ Places)'
    <2>1. pc' = next /\ UNCHANGED <<world, experiment, stage, history>> /\ pc = here
      BY <1>4 DEF MirrorsDeleted, TapsDeleted
    <2>. QED
      BY <1>4, <2>1
  <1>5. CASE PreStartDeletes
    BY <1>0, <1>4, <1>5, DeletingSteps DEF PreStartDeletes
  <1>6. CASE Launch
    BY <1>6 DEF Launch
  <1>7. CASE BeginPostStart
    BY <1>7 DEF BeginPostStart
  <1>8. CASE CreateTap
    BY <1>8, SMTT(20) DEF CreateTap
  <1>8a. CASE TargetRefused
    BY <1>8a DEF TargetRefused
  <1>9. CASE PickTarget
    <2>1. CASE recorded' = recorded \cup {target} /\ todo' = schedule /\ pc' = "tunnel" /\ UNCHANGED target
      BY <1>9, <2>1 DEF PickTarget
    <2>2. CASE target' = target + 1 /\ UNCHANGED <<pc, todo, recorded>>
      BY <1>9, <2>2 DEF PickTarget
    <2>. QED
      BY <1>9, <2>1, <2>2 DEF PickTarget
  <1>10. CASE Panic
    BY <1>10 DEF Panic
  <1>11. CASE CreateTunnel
    BY <1>11, SMTT(20) DEF CreateTunnel
  <1>12. CASE CreateMirror
    BY <1>12 DEF CreateMirror
  <1>13. CASE TargetDone
    BY <1>13 DEF TargetDone
  <1>14. CASE SaveStatus
    <2>1. made' \in BOOLEAN
      BY <1>14, Zenon DEF SaveStatus
    <2>. QED
      BY <1>14, <2>1 DEF SaveStatus
  <1>15. CASE RollbackDeletes
    <2>1. CASE /\ pc = "undoTaps" /\ todo = {}
               /\ pc' = "undoMirrors" /\ doomed' = schedule \X recorded
               /\ UNCHANGED <<world, experiment, todo, target, recorded, history>>
      BY <2>1
    <2>. QED
      BY <1>0, <1>4, <1>15, <2>1, DeletingSteps DEF RollbackDeletes
  <1>16. CASE CleanUp
    <2>1. made' = FALSE
      BY <1>16 DEF CleanUp
    <2>2. doomed' \subseteq Hosts \X Targets
      BY <1>16 DEF CleanUp
    <2>. QED
      BY <1>16, <2>1, <2>2 DEF CleanUp
  <1>17. CASE CleanUpDeletes
    BY <1>0, <1>4, <1>17, DeletingSteps DEF CleanUpDeletes
  <1>18. CASE Die
    <2>1. astray' \subseteq 0 .. starts
      BY <1>0, <1>18 DEF Die
    <2>. QED
      BY <1>18, <2>1 DEF Die
  <1>19. CASE UNCHANGED vars
    BY <1>19 DEF vars
  <1>. QED
    BY <1>1, <1>2, <1>2a, <1>3, <1>5, <1>6, <1>7, <1>8, <1>8a, <1>9, <1>10, <1>11, <1>12, <1>13,
       <1>14, <1>15, <1>16, <1>17, <1>18, <1>19
    DEF Next, PostStart

\* Every state of the app, the experiment and the cluster is of its type.
THEOREM MirrorTypeCorrect == Spec => []TypeOK
  <1>1. TypeOK /\ Places => TypeOK
    OBVIOUS
  <1>. QED
    BY <1>1, PlacesInit, PlacesStep, PTL DEF Spec
-----------------------------------------------------------------------------
\* A step that leaves the hosts as they are keeps what was kept, or all of it goes astray.
LEMMA HostsAsTheyAre ==
    ASSUME UNCHANGED <<world, astray>>
    PROVE  KeptTaps' = KeptTaps /\ Pieces' = Pieces
  BY DEF world, KeptTaps, Pieces

LEMMA AllAstray ==
    ASSUME UNCHANGED world, NEW n, Stray(n), \A x \in KeptTaps \cup Pieces : x[2] = n
    PROVE  KeptTaps' = {} /\ Pieces' = {}
  BY DEF world, KeptTaps, Pieces, Stray

\* Whether or not the host refuses, the loops leave nothing that they have visited but what
\* has gone astray, and they touch nothing else.
LEMMA MirrorsGo ==
    ASSUME TypeOK, NEW here, NEW n, DeleteMirrors(here, n)
    PROVE  /\ Pieces' \subseteq Pieces /\ KeptTaps' \subseteq KeptTaps
           /\ \A x \in Pieces' : <<x[1], x[3]>> \in doomed /\ x[2] = n
                                 => <<x[1], x[3]>> \in doomed'
           /\ pc = here /\ UNCHANGED <<taps, experiment, pc, todo, target, recorded>>
  <1>1. PICK x \in doomed : /\ DeleteMirrorFromHost(<<x[1], n, x[2]>>)
                             /\ doomed' = doomed \ {x}
    BY DEF DeleteMirrors
  <1>2. pc = here /\ UNCHANGED <<taps, experiment, pc, todo, target, recorded>>
    BY DEF DeleteMirrors
  <1>3. \A y \in Pieces : y = <<y[1], y[2], y[3]>>
    BY DEF TypeOK, Pieces
  <1>4. x = <<x[1], x[2]>>
    BY DEF TypeOK
  <1>5. /\ astray \subseteq astray'
        /\ \/ mirrors' = mirrors \ {<<x[1], n, x[2]>>} /\ ports' = ports \ {<<x[1], n, x[2]>>}
           \/ n \in astray' /\ mirrors' \subseteq mirrors /\ ports' \subseteq ports
    BY <1>1 DEF DeleteMirrorFromHost, Stray
  <1>6. Pieces' \subseteq Pieces /\ KeptTaps' \subseteq KeptTaps
    BY <1>2, <1>5 DEF Pieces, KeptTaps
  <1>7. ASSUME NEW y \in Pieces', <<y[1], y[3]>> \in doomed, y[2] = n
        PROVE  <<y[1], y[3]>> \in doomed'
    <2>1. n \notin astray'
      BY <1>7 DEF Pieces
    <2>2. y # <<x[1], n, x[2]>>
      BY <1>5, <2>1 DEF Pieces
    <2>3. y = <<y[1], n, y[3]>>
      BY <1>3, <1>6, <1>7
    <2>4. <<y[1], y[3]>> # x
      BY <1>4, <2>2, <2>3
    <2>. QED
      BY <1>1, <1>7, <2>4
  <1>. QED
    BY <1>2, <1>6, <1>7

LEMMA TapsGo ==
    ASSUME TypeOK, NEW here, NEW n, DeleteTaps(here, n)
    PROVE  /\ Pieces' \subseteq Pieces /\ KeptTaps' \subseteq KeptTaps
           /\ \A x \in KeptTaps' : x[1] \in todo /\ x[2] = n => x[1] \in todo'
           /\ pc = here
           /\ UNCHANGED <<ports, mirrors, experiment, pc, doomed, target, recorded>>
  <1>1. PICK h \in todo :
            /\ \/ taps' = taps \ {<<h, n>>} /\ UNCHANGED astray
               \/ taps' = taps /\ astray' = astray \cup {n}
            /\ todo' = todo \ {h}
    BY DEF DeleteTaps, Stray
  <1>2. \A y \in taps : y = <<y[1], y[2]>>
    BY DEF TypeOK
  <1>3. pc = here /\ UNCHANGED <<ports, mirrors, experiment, pc, doomed, target, recorded>>
    BY DEF DeleteTaps
  <1>4. Pieces' \subseteq Pieces /\ KeptTaps' \subseteq KeptTaps
    BY <1>1, <1>3 DEF Pieces, KeptTaps
  <1>5. ASSUME NEW y \in KeptTaps', y[1] \in todo, y[2] = n PROVE y[1] \in todo'
    BY <1>1, <1>2, <1>5 DEF KeptTaps
  <1>. QED
    BY <1>3, <1>4, <1>5
-----------------------------------------------------------------------------
LEMMA ReachInvInit == Init => ReachInv
  BY PlacesInit
  DEF Init, ReachInv, OfThisStart, OfTheStatus, KeptTaps, Pieces, PostStartAt, RollbackAt

\* What the saved status of an app without status names.
LEMMA NothingNamed ==
    ASSUME TypeOK, status = NoStatus, OfTheStatus, pc \notin PostStartAt \cup RollbackAt
    PROVE  KeptTaps = {} /\ Pieces = {}
  BY DEF TypeOK, OfTheStatus, Named, NoStatus, KeptTaps, Pieces

LEMMA ReachInvStep == ReachInv /\ [Next]_vars => ReachInv'
  <1> SUFFICES ASSUME ReachInv, [Next]_vars PROVE ReachInv'
    OBVIOUS
  <1>0. TypeOK /\ Places /\ (TypeOK /\ Places)'
    BY PlacesStep DEF ReachInv
  <1> SUFFICES (OfThisStart /\ OfTheStatus)'
    BY <1>0 DEF ReachInv
  <1>a. OfThisStart /\ OfTheStatus
    BY DEF ReachInv
  <1>b. UNCHANGED <<world, astray>> => KeptTaps' = KeptTaps /\ Pieces' = Pieces
    BY HostsAsTheyAre
  <1>c. ASSUME UNCHANGED world, NEW n, Stray(n), \A x \in KeptTaps \cup Pieces : x[2] = n
        PROVE  KeptTaps' = {} /\ Pieces' = {}
    BY <1>c, AllAstray
  <1> USE <1>0, <1>a, <1>b
      DEF OfThisStart, OfTheStatus, Named, PreStartAt, PostStartAt, RollbackAt, CleanUpAt,
          world, experiment, stage, history
  <1>1. CASE Configure
    BY <1>1 DEF Configure
  <1>2. CASE Start
    BY <1>2 DEF Start
  <1>3. CASE PreStart
    <2>1. CASE status = NoStatus /\ pc' = "launch" /\ UNCHANGED <<todo, doomed, astray, faults>>
      BY <1>3, <2>1, NothingNamed DEF PreStart
    <2>2. CASE /\ pc' = "preMirrors" /\ todo' = schedule
               /\ doomed' = schedule \X status.mirrors
               /\ UNCHANGED <<astray, faults>>
      BY <1>3, <2>2 DEF PreStart
    <2>3. CASE Stray(status.tap) /\ pc' = "launch"
      <3>1. KeptTaps' = {} /\ Pieces' = {}
        BY <1>3, <1>c, <2>3 DEF PreStart
      <3>. QED
        BY <2>3, <3>1
    <2>. QED
      BY <1>3, <2>1, <2>2, <2>3 DEF PreStart
  <1>4. CASE DeleteMirrors("preMirrors", status.tap)
    BY <1>4, MirrorsGo
  <1>5. CASE MirrorsDeleted("preMirrors", "preTap")
    BY <1>5 DEF MirrorsDeleted, Places
  <1>6. CASE DeleteTaps("preTap", status.tap)
    BY <1>6, TapsGo
  <1>7. CASE TapsDeleted("preTap", "launch")
    BY <1>7 DEF TapsDeleted
  <1>8. CASE Launch
    BY <1>8 DEF Launch
  <1>9. CASE BeginPostStart
    BY <1>9 DEF BeginPostStart
  <1>10. CASE CreateTap
    <2>1. \A x \in KeptTaps' : x \in KeptTaps \/ (x[2] = starts /\ x[1] \in schedule)
      BY <1>10 DEF CreateTap, Places, Make, KeptTaps
    <2>2. Pieces' = Pieces /\ (dryrun => KeptTaps' = KeptTaps)
      BY <1>10 DEF CreateTap, Make, KeptTaps, Pieces
    <2>3. pc = "tap" /\ UNCHANGED <<dryrun, schedule, starts, status, recorded>>
      BY <1>10 DEF CreateTap
    <2>4. pc' = "tap" \/ (pc' = "undoTaps" /\ todo' = schedule)
      BY <1>10 DEF CreateTap, RollBack
    <2>. QED
      BY <2>1, <2>2, <2>3, <2>4
  <1>11. CASE TapsCreated
    BY <1>11 DEF TapsCreated
  <1>11a. CASE TargetRefused
    BY <1>11a DEF TargetRefused, RollBack
  <1>12. CASE PickTarget
    BY <1>12 DEF PickTarget
  <1>13. CASE Panic
    <2>1. KeptTaps' = {} /\ Pieces' = {}
      BY <1>13, <1>c DEF Panic
    <2>. QED
      BY <1>13, <2>1 DEF Panic
  <1>14. CASE CreateTunnel
    <2>1. \A x \in Pieces' :
             x \in Pieces \/ (x[2] = starts /\ x[1] \in schedule /\ x[3] \in recorded)
      BY <1>14 DEF CreateTunnel, Places, Make, Pieces
    <2>2. KeptTaps' = KeptTaps /\ (dryrun => Pieces' = Pieces)
      BY <1>14 DEF CreateTunnel, Make, KeptTaps, Pieces
    <2>3. pc = "tunnel" /\ UNCHANGED <<dryrun, schedule, starts, status, recorded>>
      BY <1>14 DEF CreateTunnel
    <2>4. pc' \in {"mirror", "tunnel"} \/ (pc' = "undoTaps" /\ todo' = schedule)
      BY <1>14 DEF CreateTunnel, RollBack
    <2>. QED
      BY <2>1, <2>2, <2>3, <2>4
  <1>15. CASE CreateMirror
    <2>1. \A x \in Pieces' :
             x \in Pieces \/ (x[2] = starts /\ x[1] \in schedule /\ x[3] \in recorded)
      BY <1>15 DEF CreateMirror, Places, Pieces
    <2>2. KeptTaps' = KeptTaps
      BY <1>15 DEF CreateMirror, KeptTaps
    <2>3. pc = "mirror" /\ ~dryrun /\ UNCHANGED <<dryrun, schedule, starts, status, recorded>>
      BY <1>15 DEF CreateMirror, Places
    <2>4. pc' = "tunnel" \/ (pc' = "undoTaps" /\ todo' = schedule)
      BY <1>15, <2>3 DEF CreateMirror, RollBack
    <2>. QED
      BY <2>1, <2>2, <2>3, <2>4
  <1>16. CASE TargetDone
    BY <1>16 DEF TargetDone
  <1>17. CASE SaveStatus
    <2>1. KeptTaps' = KeptTaps /\ Pieces' = Pieces
      BY <1>17 DEF SaveStatus
    <2>. QED
      BY <1>17, <2>1 DEF SaveStatus
  <1>18. CASE DeleteTaps("undoTaps", starts)
    BY <1>18, TapsGo
  <1>19. CASE /\ pc = "undoTaps" /\ todo = {}
              /\ pc' = "undoMirrors" /\ doomed' = schedule \X recorded
              /\ UNCHANGED <<world, experiment, todo, target, recorded, history>>
    BY <1>19
  <1>20. CASE DeleteMirrors("undoMirrors", starts)
    BY <1>20, MirrorsGo
  <1>21. CASE MirrorsDeleted("undoMirrors", "running")
    BY <1>21 DEF MirrorsDeleted
  <1>22. CASE CleanUp
    BY <1>22 DEF CleanUp
  <1>23. CASE DeleteMirrors("cleanMirrors", status.tap)
    BY <1>23, MirrorsGo
  <1>24. CASE DeleteTaps("cleanTap", status.tap)
    BY <1>24, TapsGo
  <1>25. CASE \/ MirrorsDeleted("cleanMirrors", "cleanTap")
              \/ TapsDeleted("cleanTap", "stopped")
    BY <1>25 DEF MirrorsDeleted, TapsDeleted
  <1>26. CASE Die
    <2>1. CASE pc \in CleanUpAt /\ pc' = "stopped" /\ UNCHANGED astray
      BY <1>26, <2>1 DEF Die
    <2>2. CASE pc \in PreStartAt /\ pc' = "launch" /\ Stray(status.tap)
      <3>1. KeptTaps' = {} /\ Pieces' = {}
        BY <1>26, <1>c, <2>2 DEF Die
      <3>. QED
        BY <2>2, <3>1
    <2>3. CASE pc \in PostStartAt \cup RollbackAt /\ pc' = "running" /\ Stray(starts)
      <3>1. KeptTaps' = {} /\ Pieces' = {}
        BY <1>26, <1>c, <2>3 DEF Die
      <3>. QED
        BY <2>3, <3>1
    <2>. QED
      BY <1>26, <2>1, <2>2, <2>3 DEF Die
  <1>27. CASE UNCHANGED vars
    BY <1>27 DEF vars
  <1>. QED
    BY <1>1, <1>2, <1>3, <1>4, <1>5, <1>6, <1>7, <1>8, <1>9, <1>10, <1>11, <1>11a, <1>12, <1>13,
       <1>14, <1>15, <1>16, <1>17, <1>18, <1>19, <1>20, <1>21, <1>22, <1>23, <1>24, <1>25, <1>26,
       <1>27
    DEF Next, PostStart, PreStartDeletes, RollbackDeletes, CleanUpDeletes

LEMMA ReachInvAlways == Spec => []ReachInv
  BY ReachInvInit, ReachInvStep, PTL DEF Spec

\* Whichever creation fails on whichever hosts, whenever a cleanup is killed and whichever
\* starts are dry runs: what is on the hosts is named by the saved status, of the post-start
\* that is to save or undo it, or of one of the starts that went astray by themselves.
THEOREM NothingGetsLost == Spec => []NothingIsLost
  <1>1. ReachInv => NothingIsLost
    BY DEF ReachInv, OfThisStart, OfTheStatus, NothingIsLost, Undoing, KeptTaps, Pieces
  <1>. QED
    BY <1>1, ReachInvAlways, PTL

\* pre-start, with what the last cleanup has left, empties the hosts before the launch of
\* everything but what the starts that went astray have left.
THEOREM LaunchesAreClean == Spec => []LaunchIsClean
  <1>1. ReachInv => LaunchIsClean
    BY DEF ReachInv, OfThisStart, LaunchIsClean, KeptTaps, Pieces
  <1>. QED
    BY <1>1, ReachInvAlways, PTL
-----------------------------------------------------------------------------
LEMMA HarmlessInit == Init => HarmlessInv
  <1> SUFFICES ASSUME Init PROVE CleanedUp
    BY DEF HarmlessInv
  <1>1. pc = "stopped" /\ NamedTaps = {} /\ NamedPieces = {}
    BY DEF Init, NamedTaps, NamedPieces
  <1>. QED
    BY <1>1 DEF CleanedUp, PostStartAt, RollbackAt, CleanUpAt

LEMMA FaultsGrow == TypeOK /\ [Next]_vars => faults \in Nat /\ faults' \in {faults, faults + 1}
  <1> SUFFICES ASSUME TypeOK, [Next]_vars PROVE faults' \in {faults, faults + 1}
    BY DEF TypeOK
  <1> USE DEF Fault, history
  <1>1. CASE PreStart
    BY <1>1, Zenon DEF PreStart
  <1>2. ASSUME NEW here, NEW n, DeleteMirrors(here, n) \/ DeleteTaps(here, n)
        PROVE  faults' \in {faults, faults + 1}
    BY <1>2 DEF DeleteMirrors, DeleteTaps, DeleteMirrorFromHost
  <1>3. ASSUME NEW here, NEW next, MirrorsDeleted(here, next) \/ TapsDeleted(here, next)
        PROVE  faults' \in {faults, faults + 1}
    BY <1>3 DEF MirrorsDeleted, TapsDeleted
  <1>4. CASE PreStartDeletes \/ RollbackDeletes \/ CleanUpDeletes
    BY <1>2, <1>3, <1>4 DEF PreStartDeletes, RollbackDeletes, CleanUpDeletes
  <1>5. CASE Die
    BY <1>5 DEF Die
  <1>6. CASE CleanUp
    BY <1>6 DEF CleanUp
  <1>7. CASE UNCHANGED vars
    BY <1>7 DEF vars
  <1>8. CASE \/ Configure \/ Start \/ Launch \/ BeginPostStart \/ CreateTap \/ TapsCreated
             \/ TargetRefused \/ PickTarget \/ Panic \/ CreateTunnel \/ CreateMirror
             \/ TargetDone \/ SaveStatus
    BY <1>8 DEF Configure, Start, Launch, BeginPostStart, CreateTap, TapsCreated, TargetRefused,
       PickTarget, Panic, CreateTunnel, CreateMirror, TargetDone, SaveStatus
  <1>. QED
    BY <1>1, <1>4, <1>5, <1>6, <1>7, <1>8 DEF Next, PostStart

\* A step that leaves hosts and status alone keeps what the names stand for.
LEMMA NamesAsTheyAre ==
    ASSUME UNCHANGED <<world, status>>
    PROVE  NamedTaps' = NamedTaps /\ NamedPieces' = NamedPieces
  BY DEF world, NamedTaps, NamedPieces

\* What is made is of this start, not of the one the status names.
LEMMA MadeIsNotNamed ==
    ASSUME status.tap < starts, starts \in Nat, UNCHANGED status,
           \A x \in taps' : x \in taps \/ x[2] = starts,
           \A x \in (ports \cup mirrors)' : x \in ports \cup mirrors \/ x[2] = starts
    PROVE  NamedTaps' \subseteq NamedTaps /\ NamedPieces' \subseteq NamedPieces
  BY DEF NamedTaps, NamedPieces

\* The loops, when no host refuses.
LEMMA NamedMirrorsGo ==
    ASSUME TypeOK, NEW here, NEW n, DeleteMirrors(here, n), faults = 0, faults' = 0
    PROVE  /\ NamedPieces' \subseteq NamedPieces /\ NamedTaps' = NamedTaps
           /\ n = status.tap => \A x \in NamedPieces' :
                  <<x[1], x[3]>> \in doomed => <<x[1], x[3]>> \in doomed'
           /\ pc = here /\ UNCHANGED <<experiment, pc, todo, astray>>
  <1>1. PICK x \in doomed : /\ DeleteMirrorFromHost(<<x[1], n, x[2]>>)
                             /\ doomed' = doomed \ {x}
    BY DEF DeleteMirrors
  <1>2. pc = here /\ UNCHANGED <<taps, experiment, pc, todo>>
    BY DEF DeleteMirrors
  <1>3. /\ mirrors' = mirrors \ {<<x[1], n, x[2]>>} /\ ports' = ports \ {<<x[1], n, x[2]>>}
        /\ UNCHANGED astray
    BY <1>1 DEF DeleteMirrorFromHost, Fault
  <1>4. \A y \in ports \cup mirrors : y = <<y[1], y[2], y[3]>>
    BY DEF TypeOK
  <1>5. x = <<x[1], x[2]>>
    BY DEF TypeOK
  <1>6. NamedPieces' \subseteq NamedPieces /\ NamedTaps' = NamedTaps
    BY <1>2, <1>3 DEF NamedPieces, NamedTaps, experiment
  <1>7. ASSUME NEW y \in NamedPieces', <<y[1], y[3]>> \in doomed, n = status.tap
        PROVE  <<y[1], y[3]>> \in doomed'
    <2>1. y # <<x[1], n, x[2]>> /\ y = <<y[1], n, y[3]>>
      BY <1>2, <1>3, <1>4, <1>7 DEF NamedPieces, experiment
    <2>2. <<y[1], y[3]>> # x
      BY <1>5, <2>1
    <2>. QED
      BY <1>1, <1>7, <2>2
  <1>. QED
    BY <1>2, <1>3, <1>6, <1>7

LEMMA NamedTapsGo ==
    ASSUME TypeOK, NEW here, NEW n, DeleteTaps(here, n), faults = 0, faults' = 0
    PROVE  /\ NamedPieces' = NamedPieces /\ NamedTaps' \subseteq NamedTaps
           /\ n = status.tap => \A x \in NamedTaps' : x[1] \in todo => x[1] \in todo'
           /\ pc = here /\ UNCHANGED <<experiment, pc, astray>>
  <1>1. PICK h \in todo :
            taps' = taps \ {<<h, n>>} /\ UNCHANGED astray /\ todo' = todo \ {h}
    BY DEF DeleteTaps, Fault
  <1>2. \A y \in taps : y = <<y[1], y[2]>>
    BY DEF TypeOK
  <1>3. pc = here /\ UNCHANGED <<ports, mirrors, experiment, pc>>
    BY DEF DeleteTaps
  <1>4. NamedPieces' = NamedPieces /\ NamedTaps' \subseteq NamedTaps
    BY <1>1, <1>3 DEF NamedPieces, NamedTaps, experiment
  <1>5. ASSUME NEW y \in NamedTaps', y[1] \in todo, n = status.tap PROVE y[1] \in todo'
    BY <1>1, <1>2, <1>3, <1>5 DEF NamedTaps, experiment
  <1>. QED
    BY <1>1, <1>3, <1>4, <1>5

LEMMA HarmlessStep == ReachInv /\ HarmlessInv /\ [Next]_vars => HarmlessInv'
  <1> SUFFICES ASSUME ReachInv, HarmlessInv, [Next]_vars, faults' = 0 PROVE CleanedUp'
    BY DEF HarmlessInv
  <1>0. TypeOK /\ TypeOK' /\ Places
    BY PlacesStep DEF ReachInv
  <1>a. faults = 0
    BY <1>0, FaultsGrow
  <1>b. CleanedUp
    BY <1>a DEF HarmlessInv
  <1>c. UNCHANGED <<world, status>> => NamedTaps' = NamedTaps /\ NamedPieces' = NamedPieces
    BY NamesAsTheyAre
  <1>d. starts \in Nat /\ status.tap \in 0 .. starts /\ astray \subseteq 0 .. starts
    BY <1>0 DEF TypeOK
  <1> USE <1>0, <1>a, <1>b, <1>c, <1>d
      DEF CleanedUp, PreStartAt, PostStartAt, RollbackAt, CleanUpAt,
          world, experiment, stage, history
  <1>1. CASE Configure \/ Start
    BY <1>1 DEF Configure, Start
  <1>2. CASE PreStart
    <2>1. pc = "pre" /\ pc' \in {"launch", "preMirrors"} /\ UNCHANGED <<world, experiment>>
      BY <1>2 DEF PreStart
    <2>. QED
      BY <2>1
  <1>3. CASE PreStartDeletes
    <2>1. CASE DeleteMirrors("preMirrors", status.tap)
      BY <2>1, NamedMirrorsGo
    <2>2. CASE DeleteTaps("preTap", status.tap)
      BY <2>2, NamedTapsGo
    <2>3. CASE MirrorsDeleted("preMirrors", "preTap") \/ TapsDeleted("preTap", "launch")
      BY <2>3 DEF MirrorsDeleted, TapsDeleted
    <2>. QED
      BY <1>3, <2>1, <2>2, <2>3 DEF PreStartDeletes
  <1>4. CASE Launch
    BY <1>4 DEF Launch
  <1>5. CASE BeginPostStart
    BY <1>5 DEF BeginPostStart
  <1>6. CASE CreateTap
    <2>1. /\ pc = "tap" /\ pc' \in {"tap", "running", "undoTaps"}
          /\ UNCHANGED <<ports, mirrors, experiment, astray>>
      BY <1>6 DEF CreateTap, RollBack
    <2>2. \A x \in taps' : x \in taps \/ x[2] = starts
      BY <1>6 DEF CreateTap, Make
    <2>3. NamedTaps' \subseteq NamedTaps /\ NamedPieces' \subseteq NamedPieces
      BY <2>1, <2>2, MadeIsNotNamed
    <2>. QED
      BY <2>1, <2>3
  <1>7. CASE TapsCreated \/ TargetRefused \/ PickTarget \/ Panic \/ TargetDone
    BY <1>7 DEF TapsCreated, TargetRefused, PickTarget, Panic, TargetDone, RollBack
  <1>8. CASE CreateTunnel
    <2>1. /\ pc = "tunnel" /\ pc' \in {"tunnel", "mirror", "running", "undoTaps"}
          /\ UNCHANGED <<taps, mirrors, experiment, astray>>
      BY <1>8 DEF CreateTunnel, RollBack
    <2>2. \A x \in ports' : x \in ports \/ x[2] = starts
      BY <1>8 DEF CreateTunnel, Make
    <2>3. NamedTaps' \subseteq NamedTaps /\ NamedPieces' \subseteq NamedPieces
      BY <2>1, <2>2, MadeIsNotNamed
    <2>. QED
      BY <2>1, <2>3
  <1>9. CASE CreateMirror
    <2>1. /\ pc = "mirror" /\ pc' \in {"tunnel", "running", "undoTaps"}
          /\ UNCHANGED <<taps, ports, experiment, astray>>
      BY <1>9 DEF CreateMirror, RollBack
    <2>2. \A x \in mirrors' : x \in mirrors \/ x[2] = starts
      BY <1>9 DEF CreateMirror
    <2>3. NamedTaps' \subseteq NamedTaps /\ NamedPieces' \subseteq NamedPieces
      BY <2>1, <2>2, MadeIsNotNamed
    <2>. QED
      BY <2>1, <2>3
  <1>10. CASE SaveStatus
    <2>1. /\ status' = [tap |-> starts, mirrors |-> recorded] /\ pc = "pick" /\ pc' = "running"
          /\ UNCHANGED <<world, schedule, starts, dryrun, astray>>
      BY <1>10 DEF SaveStatus
    <2>2. status'.tap = starts /\ status'.mirrors = recorded
      BY <2>1
    <2>3. \A x \in NamedTaps' : x \in KeptTaps
      BY <2>1, <2>2 DEF NamedTaps, KeptTaps
    <2>4. \A x \in NamedPieces' : x \in Pieces
      BY <2>1, <2>2 DEF NamedPieces, Pieces
    <2>5. /\ \A x \in KeptTaps : x[1] \in schedule
          /\ \A x \in Pieces : x[1] \in schedule /\ x[3] \in recorded
          /\ dryrun => KeptTaps = {} /\ Pieces = {}
      BY <2>1 DEF ReachInv, OfThisStart
    <2>. QED
      BY <2>1, <2>2, <2>3, <2>4, <2>5
  <1>11. CASE RollbackDeletes
    <2>1. CASE DeleteTaps("undoTaps", starts)
      BY <2>1, NamedTapsGo
    <2>2. CASE DeleteMirrors("undoMirrors", starts)
      BY <2>2, NamedMirrorsGo
    <2>3. CASE MirrorsDeleted("undoMirrors", "running")
      BY <2>3 DEF MirrorsDeleted
    <2>4. CASE /\ pc = "undoTaps" /\ todo = {}
               /\ pc' = "undoMirrors" /\ doomed' = schedule \X recorded
               /\ UNCHANGED <<world, experiment, todo, target, recorded, history>>
      BY <2>4
    <2>. QED
      BY <1>11, <2>1, <2>2, <2>3, <2>4 DEF RollbackDeletes
  <1>12. CASE CleanUp
    <2>1. pc = "running" /\ UNCHANGED <<world, experiment, astray>>
      BY <1>12 DEF CleanUp
    <2>2. CASE dryrun \/ status = NoStatus
      <3>1. NamedTaps = {} /\ NamedPieces = {}
        BY <2>1, <2>2 DEF TypeOK, NoStatus, NamedTaps, NamedPieces
      <3>2. pc' = "stopped"
        BY <1>12, <2>2 DEF CleanUp
      <3>. QED
        BY <2>1, <3>1, <3>2
    <2>3. CASE ~(dryrun \/ status = NoStatus)
      BY <1>12, <2>1, <2>3 DEF CleanUp
    <2>. QED
      BY <2>2, <2>3
  <1>13. CASE CleanUpDeletes
    <2>1. CASE DeleteMirrors("cleanMirrors", status.tap)
      BY <2>1, NamedMirrorsGo
    <2>2. CASE DeleteTaps("cleanTap", status.tap)
      BY <2>2, NamedTapsGo
    <2>3. CASE MirrorsDeleted("cleanMirrors", "cleanTap") \/ TapsDeleted("cleanTap", "stopped")
      BY <2>3 DEF MirrorsDeleted, TapsDeleted
    <2>. QED
      BY <1>13, <2>1, <2>2, <2>3 DEF CleanUpDeletes
  <1>14. CASE Die
    BY <1>14 DEF Die, Fault
  <1>15. CASE UNCHANGED vars
    BY <1>15 DEF vars
  <1>. QED
    BY <1>1, <1>2, <1>3, <1>4, <1>5, <1>6, <1>7, <1>8, <1>9, <1>10, <1>11, <1>12, <1>13, <1>14,
       <1>15
    DEF Next, PostStart

\* As long as no deletion fails and no stage is cut short, the names a dry run puts in the
\* place of the saved ones stand for nothing on any host, whatever creations failed, however
\* many starts came before and on whatever hosts the VMs were.
THEOREM DryRunsAreHarmless == Spec => []DryRunIsHarmless
  <1>1. HarmlessInv => DryRunIsHarmless
    BY DEF HarmlessInv, CleanedUp, DryRunIsHarmless, DryRunForgetsNothing, NamedTaps,
       NamedPieces, CleanUpAt
  <1>2. ReachInv /\ HarmlessInv /\ [Next]_vars => HarmlessInv'
    BY HarmlessStep
  <1>. QED
    BY HarmlessInit, ReachInvAlways, <1>1, <1>2, PTL DEF Spec
-----------------------------------------------------------------------------
LEMMA MadeInvInit == Init => MadeInv
  <1> SUFFICES ASSUME Init PROVE MadeInv
    OBVIOUS
  <1>1. MadeSoFar
    BY DEF Init, MadeSoFar
  <1>2. MadeIsComplete
    BY DEF Init, MadeIsComplete
  <1>. QED
    BY <1>1, <1>2, PlacesInit DEF MadeInv

LEMMA MadeInvStep == MadeInv /\ [Next]_vars => MadeInv'
  <1> SUFFICES ASSUME MadeInv, [Next]_vars PROVE MadeInv'
    OBVIOUS
  <1>0. TypeOK /\ Places /\ (TypeOK /\ Places)'
    BY PlacesStep DEF MadeInv
  <1>a. MadeSoFar /\ MadeIsComplete
    BY DEF MadeInv
  <1>b. SUFFICES (MadeSoFar /\ MadeIsComplete)'
    BY <1>0 DEF MadeInv
  <1>c. made => pc = "running"
    BY <1>0 DEF Places
  <1> USE DEF world, experiment, stage, history, Addressed, Targets
  <1>1. ASSUME pc' \notin {"pick", "tunnel", "mirror", "running"}
        PROVE  (MadeSoFar /\ MadeIsComplete)'
    BY <1>1 DEF MadeSoFar, MadeIsComplete
  <1>2. ASSUME pc' = "running", pc # "running", ~SaveStatus
        PROVE  (MadeSoFar /\ MadeIsComplete)'
    <2>1. made' = made
      BY <1>2 DEF Next, Configure, Start, PreStart, PreStartDeletes, Launch, PostStart, CleanUp,
         CleanUpDeletes, Die, BeginPostStart, CreateTap, TapsCreated, TargetRefused, PickTarget,
         Panic, CreateTunnel, CreateMirror, TargetDone, RollbackDeletes, DeleteMirrors, DeleteTaps,
         MirrorsDeleted, TapsDeleted, vars
    <2>2. ~made'
      BY <1>2, <1>c, <2>1, Zenon
    <2>. QED
      BY <1>2, <2>2 DEF MadeSoFar, MadeIsComplete
  <1>3. CASE TapsCreated
    <2>1. target = 1 /\ pc' = "pick" /\ UNCHANGED target
      BY <1>0, <1>3 DEF TapsCreated, Places
    <2>. QED
      BY <2>1 DEF MadeSoFar, MadeIsComplete
  <1>4. CASE PickTarget
    <2>1. pc = "pick" /\ target \in Targets
          /\ UNCHANGED <<ports, mirrors, schedule, starts, configured, dryrun>>
      BY <1>4 DEF PickTarget
    <2>2. CASE todo' = schedule /\ pc' = "tunnel" /\ UNCHANGED target
      BY <1>a, <2>1, <2>2 DEF MadeSoFar, MadeIsComplete
    <2>3. CASE ~Addressed(target) /\ target' = target + 1 /\ UNCHANGED pc
      BY <1>a, <2>1, <2>3 DEF MadeSoFar, MadeIsComplete
    <2>. QED
      BY <1>4, <2>2, <2>3 DEF PickTarget
  <1>5. CASE CreateTunnel
    <2>1. /\ pc = "tunnel" /\ pc' \in {"tunnel", "mirror", "undoTaps"}
          /\ ports \subseteq ports'
          /\ UNCHANGED <<mirrors, schedule, starts, configured, dryrun, target>>
      BY <1>5 DEF CreateTunnel, RollBack
    <2>2. ASSUME pc' # "undoTaps", ~dryrun
          PROVE  \A h \in todo : h \in todo' \/ <<target, h>> \notin Seen
      BY <1>5, <2>2 DEF CreateTunnel, RollBack
    <2>3. MadeIsComplete'
      BY <2>1 DEF MadeIsComplete
    <2>4. MadeSoFar'
      BY <1>a, <2>1, <2>2 DEF MadeSoFar
    <2>. QED
      BY <2>3, <2>4
  <1>6. CASE CreateMirror
    <2>0. ~dryrun
      BY <1>0, <1>6 DEF CreateMirror, Places
    <2>1. /\ pc = "mirror" /\ pc' \in {"tunnel", "undoTaps"}
          /\ mirrors \subseteq mirrors'
          /\ UNCHANGED <<ports, schedule, starts, configured, dryrun, target>>
      BY <1>6, <2>0 DEF CreateMirror, RollBack
    <2>2. ASSUME pc' # "undoTaps"
          PROVE  \A h \in todo : h \in todo' \/ <<h, starts, target>> \in mirrors' \cap ports
      BY <1>6, <2>0, <2>2 DEF CreateMirror, RollBack
    <2>3. MadeIsComplete'
      BY <2>1 DEF MadeIsComplete
    <2>4. MadeSoFar'
      BY <1>a, <2>1, <2>2 DEF MadeSoFar
    <2>. QED
      BY <2>3, <2>4
  <1>7. CASE TargetDone
    <2>1. /\ pc = "tunnel" /\ todo = {} /\ pc' = "pick" /\ target' = target + 1
          /\ UNCHANGED <<ports, mirrors, schedule, starts, configured, dryrun>>
          /\ target \in Int
      BY <1>0, <1>7 DEF TargetDone, TypeOK
    <2>. QED
      BY <1>a, <2>1 DEF MadeSoFar, MadeIsComplete
  <1>8. CASE SaveStatus
    <2>1. /\ pc = "pick" /\ target > NumTargets /\ pc' = "running"
          /\ UNCHANGED <<ports, mirrors, schedule, starts, configured>>
      BY <1>8 DEF SaveStatus
    <2>2. CASE dryrun
      <3>1. ~made'
        BY <1>8, <1>c, <2>1, <2>2, Zenon DEF SaveStatus
      <3>. QED
        BY <2>1, <3>1 DEF MadeSoFar, MadeIsComplete
    <2>3. CASE ~dryrun
      BY <1>0, <1>a, <2>1, <2>3, MirrorAssumption DEF MadeSoFar, MadeIsComplete, TypeOK
    <2>. QED
      BY <2>2, <2>3
  <1>9. ASSUME UNCHANGED vars PROVE (MadeSoFar /\ MadeIsComplete)'
    BY <1>9, <1>a DEF vars, MadeSoFar, MadeIsComplete
  <1>10. ASSUME pc' = "running", pc = "running", Next PROVE FALSE
    BY <1>10 DEF Next, Configure, Start, PreStart, PreStartDeletes, Launch, PostStart, CleanUp,
       CleanUpDeletes, Die, BeginPostStart, CreateTap, TapsCreated, TargetRefused, PickTarget,
       Panic, CreateTunnel, CreateMirror, TargetDone, SaveStatus, RollbackDeletes, DeleteMirrors,
       DeleteTaps, MirrorsDeleted, TapsDeleted, RollBack, PreStartAt, PostStartAt, RollbackAt,
       CleanUpAt
  <1>11. ASSUME pc' \in {"pick", "tunnel", "mirror"}, Next
         PROVE  TapsCreated \/ PickTarget \/ CreateTunnel \/ CreateMirror \/ TargetDone
    BY <1>11 DEF Next, Configure, Start, PreStart, PreStartDeletes, Launch, PostStart, CleanUp,
       CleanUpDeletes, Die, BeginPostStart, CreateTap, TargetRefused, Panic, SaveStatus, RollbackDeletes,
       DeleteMirrors, DeleteTaps, MirrorsDeleted, TapsDeleted, RollBack
  <1>. QED
    BY <1>1, <1>2, <1>3, <1>4, <1>5, <1>6, <1>7, <1>8, <1>9, <1>10, <1>11

\* A post-start that reports success has skipped no host and no target it can address, on
\* however many hosts there was nothing to mirror.
THEOREM SuccessIsComplete == Spec => []MadeIsComplete
  <1>1. MadeInv => MadeIsComplete
    BY DEF MadeInv
  <1>. QED
    BY <1>1, MadeInvInit, MadeInvStep, PTL DEF Spec
=============================================================================
