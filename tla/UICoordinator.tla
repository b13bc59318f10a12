---------------------------- MODULE UICoordinator ----------------------------
(***************************************************************************)
(* The firmware's UICoordinator (src/firmware/master/common/               *)
(* ui_coordinator.cpp): the object a system UI uses to take cubes over     *)
(* from the running game.  It pauses a cube's normal VRAM updates and has  *)
(* the radio stipple its screen, attaches its own video buffer (avb) to    *)
(* one cube, and later gives the cube its game buffer back and resumes.    *)
(*                                                                         *)
(* The coordinator runs on one thread; its client may call any of its      *)
(* operations in any order, with any cube vector.  An operation that       *)
(* waits in an idle() loop is split at the loop: the steps before it, and  *)
(* the loop's exit with the steps after it.  Meanwhile the environment     *)
(* runs: the radio sends queued stipple packets and clears their           *)
(* sendStipple bits, cubes connect and disconnect, and time passes the     *)
(* stipple deadline.  finishCubes, refreshCubes, paintCubes and            *)
(* VRAM::init only wait for or redraw VRAM content, which is abstracted.   *)
(***************************************************************************)
EXTENDS FiniteSets, FiniteSetsExt

CONSTANTS
    Cubes,    \* the cube IDs, ordered: Intrinsic::CLZ picks the lowest
    NoCube,   \* _SYS_CUBE_ID_INVALID
    NULL,     \* a null _SYSVideoBuffer pointer
    AVB       \* &avb.vbuf, the coordinator's own video buffer

\* The toggle bit of a buffer's flags: the rest of the flags is carried
\* along with it and abstracted.
FlagValues == {0, 1}

ASSUME Cubes \subseteq Nat /\ Cubes # {} /\ NoCube \notin Cubes

\* The game's video buffer of cube c.
AppBuf(c) == [app |-> c]

Buffers == {NULL, AVB} \cup {AppBuf(c) : c \in Cubes}

VARIABLES
    sysConnected,  \* CubeSlots::sysConnected
    vramPaused,    \* CubeSlots::vramPaused
    sendStipple,   \* CubeSlots::sendStipple
    vbuf,          \* CubeSlots::instances[c].getVBuf()
    appVBuf,       \* the buffer the game had attached to each cube
    uiConnected,   \* UICoordinator::uiConnected
    avbCube,       \* avb.cube
    savedVBuf,     \* UICoordinator::savedVBuf
    stippling,     \* SysTime::ticks() < stippleDeadline
    pc,            \* "ready", or the idle() loop the coordinator waits in
    opArg,         \* the cube vector of the operation that waits
    flags,         \* each buffer's SYSVideoBuffer and VRAM flags (the toggle bit)
    cubeFlag       \* history: the toggle bit as each cube has last seen it

vars == <<sysConnected, vramPaused, sendStipple, vbuf, appVBuf, uiConnected,
          avbCube, savedVBuf, stippling, pc, opArg, flags, cubeFlag>>

Init ==
    /\ sysConnected \in SUBSET Cubes
    /\ vramPaused = {} /\ sendStipple = {}
    /\ appVBuf \in {b \in [Cubes -> Buffers] : \A c \in Cubes : b[c] \in {NULL, AppBuf(c)}}
    /\ vbuf = appVBuf
    /\ uiConnected = {}
    /\ avbCube = NoCube /\ savedVBuf = NULL
    /\ stippling = FALSE
    /\ pc = "ready" /\ opArg = {}
    /\ flags \in [Buffers \ {NULL} -> FlagValues] /\ flags[AVB] = 0
    /\ cubeFlag = [c \in Cubes |-> IF appVBuf[c] # NULL THEN flags[appVBuf[c]] ELSE 0]

\* Plausible fault, a mutant of detach: the flags of avb are not written
\* back to the saved buffer.
detachKeepingFlags ==
    /\ vbuf' = IF avbCube # NoCube THEN [vbuf EXCEPT ![avbCube] = savedVBuf] ELSE vbuf
    /\ avbCube' = NoCube
    /\ savedVBuf' = NULL
    /\ UNCHANGED flags

\* UICoordinator::detach(): hand the flags of avb back to the saved
\* buffer, and give the attached cube that buffer back.
detach ==
    /\ flags' = IF avbCube # NoCube /\ savedVBuf # NULL
                THEN [flags EXCEPT ![savedVBuf] = flags[AVB]] ELSE flags
    /\ vbuf' = IF avbCube # NoCube THEN [vbuf EXCEPT ![avbCube] = savedVBuf] ELSE vbuf
    /\ avbCube' = NoCube
    /\ savedVBuf' = NULL

StayAttached == UNCHANGED <<vbuf, avbCube, savedVBuf, flags>>

Environment == <<sysConnected, appVBuf, cubeFlag>>

\* stippleCubes(cv), up to its wait: pause VRAM updates, queue the stipple.
stippleCubes(cv) ==
    /\ pc = "ready"
    /\ vramPaused' = vramPaused \cup cv
    /\ sendStipple' = sendStipple \cup cv
    /\ pc' = "stippleWait" /\ opArg' = cv
    /\ UNCHANGED <<Environment, flags, vbuf, uiConnected, avbCube, savedVBuf, stippling>>

\* Plausible fault, a mutant of StippleSent: the wait ignores sysConnected,
\* while (cv & CubeSlots::sendStipple).
StippleSentIgnoringConnected ==
    /\ pc = "stippleWait"
    /\ opArg \cap sendStipple = {}
    /\ stippling' = TRUE
    /\ pc' = "ready" /\ opArg' = {}
    /\ UNCHANGED <<Environment, flags, vramPaused, sendStipple, vbuf, uiConnected,
                   avbCube, savedVBuf>>

\* The wait's exit: no cube of cv both queued and connected; the stipple
\* deadline is set 200 ms ahead.
StippleSent ==
    /\ pc = "stippleWait"
    /\ opArg \cap sendStipple \cap sysConnected = {}
    /\ stippling' = TRUE
    /\ pc' = "ready" /\ opArg' = {}
    /\ UNCHANGED <<Environment, flags, vramPaused, sendStipple, vbuf, uiConnected,
                   avbCube, savedVBuf>>

\* restoreCubes(cv), up to its wait: cancel a queued stipple, and detach
\* if the attached cube is in cv.
restoreCubes(cv) ==
    /\ pc = "ready"
    /\ sendStipple' = sendStipple \ cv
    /\ IF avbCube \in cv THEN detach ELSE StayAttached
    /\ pc' = "restoreWait" /\ opArg' = cv
    /\ UNCHANGED <<Environment, vramPaused, uiConnected, stippling>>

\* The wait's exit once the deadline has passed: resume VRAM updates.
Restored ==
    /\ pc = "restoreWait" /\ ~stippling
    /\ vramPaused' = vramPaused \ opArg
    /\ pc' = "ready" /\ opArg' = {}
    /\ UNCHANGED <<Environment, flags, sendStipple, vbuf, uiConnected, avbCube,
                   savedVBuf, stippling>>

\* connectCubes(): take a snapshot of sysConnected.
connectCubes ==
    /\ pc = "ready"
    /\ uiConnected' = sysConnected
    /\ UNCHANGED <<Environment, flags, vramPaused, sendStipple, vbuf, avbCube,
                   savedVBuf, stippling, pc, opArg>>

\* Plausible fault, a mutant of attachToCube: the detach() before the wait
\* is left out.
attachToCubeNoDetach(id) ==
    /\ pc = "ready"
    /\ pc' = "attachWait" /\ opArg' = {id}
    /\ UNCHANGED <<Environment, flags, vramPaused, sendStipple, vbuf, uiConnected,
                   avbCube, savedVBuf, stippling>>

\* attachToCube(id), up to its wait: detach from any cube first.
attachToCube(id) ==
    /\ pc = "ready"
    /\ detach
    /\ pc' = "attachWait" /\ opArg' = {id}
    /\ UNCHANGED <<Environment, vramPaused, sendStipple, uiConnected, stippling>>

\* The wait's exit once the stipple deadline has passed: VRAM::init(avb)
\* (what it leaves in the flags is not in the repository), then avb takes
\* the flags of the cube's buffer, if it has one; save that buffer,
\* attach avb to the cube and resume its VRAM updates.
Attached ==
    /\ pc = "attachWait" /\ ~stippling
    /\ LET id == CHOOSE c \in opArg : TRUE
       IN  /\ IF vbuf[id] # NULL
              THEN /\ flags' = [flags EXCEPT ![AVB] = flags[vbuf[id]]]
                   /\ UNCHANGED cubeFlag
              ELSE \E f \in FlagValues :
                      /\ flags' = [flags EXCEPT ![AVB] = f]
                      /\ cubeFlag' = [cubeFlag EXCEPT ![id] = f]
           /\ savedVBuf' = vbuf[id]
           /\ avbCube' = id
           /\ vbuf' = [vbuf EXCEPT ![id] = AVB]
           /\ vramPaused' = vramPaused \ {id}
    /\ pc' = "ready" /\ opArg' = {}
    /\ UNCHANGED <<sysConnected, appVBuf, sendStipple, uiConnected, stippling>>

\* Intrinsic::CLZ of a cube vector, whose bit for cube c is 0x80000000 >> c:
\* the lowest cube in it, or 32 for the empty vector.
CLZ(v) == IF v = {} THEN 32 ELSE Min(v)

\* Plausible fault, a mutant of pollForAttach: the uiConnected test of the
\* attach branch is left out.
pollForAttachUnguarded ==
    LET lost     == avbCube # NoCube /\ avbCube \notin sysConnected
        attached == avbCube # NoCube /\ ~lost
    IN  \/ /\ ~attached
           /\ attachToCube(CLZ(uiConnected))
        \/ /\ pc = "ready" /\ lost /\ uiConnected = {}
           /\ detach
           /\ UNCHANGED <<Environment, vramPaused, sendStipple, uiConnected,
                          stippling, pc, opArg>>

\* pollForAttach(): detach from a cube that left sysConnected; if then
\* unattached and uiConnected is not empty, attach to its lowest cube
\* (attachToCube's own detach() is the one for the vanished cube).  When
\* attached to a connected cube, or with nothing to attach to and nothing
\* to detach, the call changes nothing.
pollForAttach ==
    LET lost     == avbCube # NoCube /\ avbCube \notin sysConnected
        attached == avbCube # NoCube /\ ~lost
    IN  \/ /\ ~attached /\ uiConnected # {}
           /\ attachToCube(CLZ(uiConnected))
        \/ /\ pc = "ready" /\ lost /\ uiConnected = {}
           /\ detach
           /\ UNCHANGED <<Environment, vramPaused, sendStipple, uiConnected,
                          stippling, pc, opArg>>

\* A call of detach() from the client while attached.
Detach ==
    /\ pc = "ready" /\ avbCube # NoCube
    /\ detach
    /\ UNCHANGED <<Environment, vramPaused, sendStipple, uiConnected,
                   stippling, pc, opArg>>

Coordinator ==
    \/ \E cv \in SUBSET Cubes \ {{}} : stippleCubes(cv) \/ restoreCubes(cv)
    \/ \E id \in Cubes : attachToCube(id)
    \/ connectCubes \/ pollForAttach \/ Detach
    \/ StippleSent \/ Restored \/ Attached

-----------------------------------------------------------------------------
(* The environment.                                                        *)

\* The radio sends a queued stipple packet to a connected cube and clears
\* its sendStipple bit.
RadioSendStipple(c) ==
    /\ c \in sendStipple \cap sysConnected
    /\ sendStipple' = sendStipple \ {c}
    /\ UNCHANGED <<flags, cubeFlag, sysConnected, appVBuf, vramPaused, vbuf,
                   uiConnected, avbCube, savedVBuf, stippling, pc, opArg>>

CubeConnects(c) ==
    /\ c \notin sysConnected
    /\ sysConnected' = sysConnected \cup {c}
    /\ UNCHANGED <<flags, cubeFlag, appVBuf, vramPaused, sendStipple, vbuf,
                   uiConnected, avbCube, savedVBuf, stippling, pc, opArg>>

CubeDisconnects(c) ==
    /\ c \in sysConnected
    /\ sysConnected' = sysConnected \ {c}
    /\ UNCHANGED <<flags, cubeFlag, appVBuf, vramPaused, sendStipple, vbuf,
                   uiConnected, avbCube, savedVBuf, stippling, pc, opArg>>

\* The cube's paint machinery, or a stipple packet, flips the toggle bit
\* in the flags of the buffer attached to a connected cube.
ToggleFlags(c) ==
    /\ c \in sysConnected /\ vbuf[c] # NULL
    /\ flags' = [flags EXCEPT ![vbuf[c]] = 1 - @]
    /\ cubeFlag' = [cubeFlag EXCEPT ![c] = 1 - @]
    /\ UNCHANGED <<sysConnected, appVBuf, vramPaused, sendStipple, vbuf,
                   uiConnected, avbCube, savedVBuf, stippling, pc, opArg>>

\* SysTime::ticks() reaches stippleDeadline.
DeadlinePasses ==
    /\ stippling
    /\ stippling' = FALSE
    /\ UNCHANGED <<flags, cubeFlag, sysConnected, appVBuf, vramPaused, sendStipple,
                   vbuf, uiConnected, avbCube, savedVBuf, pc, opArg>>

Next ==
    \/ Coordinator
    \/ \E c \in Cubes : RadioSendStipple(c) \/ CubeConnects(c) \/ CubeDisconnects(c)
                          \/ ToggleFlags(c)
    \/ DeadlinePasses

\* Time passes, and the radio sends what is queued to a cube that is
\* connected infinitely often (strong fairness: cubes may connect and
\* disconnect forever, taking turns so that some queued cube is always
\* connected).  An idle() loop re-checks its condition after every
\* idle(), so it exits if the condition holds infinitely often.  The
\* client and the cubes' comings and goings are not fair.
Spec ==
    /\ Init /\ [][Next]_vars
    /\ \A c \in Cubes : SF_vars(RadioSendStipple(c))
    /\ WF_vars(DeadlinePasses)
    /\ SF_vars(StippleSent) /\ WF_vars(Restored) /\ WF_vars(Attached)

-----------------------------------------------------------------------------
(* Properties.                                                             *)

\* The state has its types; opArg \subseteq Cubes is also attachToCube's
\* ASSERT(id < _SYS_NUM_CUBE_SLOTS).
TypeOK ==
    /\ sysConnected \subseteq Cubes /\ uiConnected \subseteq Cubes
    /\ vramPaused \subseteq Cubes /\ sendStipple \subseteq Cubes
    /\ vbuf \in [Cubes -> Buffers] /\ appVBuf \in [Cubes -> Buffers]
    /\ avbCube \in Cubes \cup {NoCube} /\ savedVBuf \in Buffers
    /\ stippling \in BOOLEAN
    /\ pc \in {"ready", "stippleWait", "restoreWait", "attachWait"}
    /\ opArg \subseteq Cubes
    /\ flags \in [Buffers \ {NULL} -> FlagValues]
    /\ cubeFlag \in [Cubes -> FlagValues]

\* Every cube but the attached one shows the game's own buffer, and the
\* buffer detach() will hand back to the attached cube is that cube's
\* game buffer: attachToCube, detach, restoreCubes and pollForAttach,
\* called in any order while cubes come and go, never lose a game's
\* buffer, give it to another cube, or leave avb on a cube.
CubesKeepOwnBuffer ==
    /\ \A c \in Cubes : vbuf[c] = IF c = avbCube THEN AVB ELSE appVBuf[c]
    /\ savedVBuf = IF avbCube = NoCube THEN NULL ELSE appVBuf[avbCube]

\* Every operation that waits in an idle() loop returns: the stipple wait,
\* even if a stippled cube disconnects and never comes back, and the
\* deadline waits of restoreCubes and attachToCube.
OperationsReturn == pc # "ready" ~> pc = "ready"

\* As restoreCubes does ("Cancel stippling, just in case it's still
\* queued"), VRAM updates of a cube resume only once no stipple is queued
\* for it: a queued stipple is only ever on a paused cube.
StippleOnlyWhilePaused == sendStipple \subseteq vramPaused

\* "For the smoothest transition, we want to copy over the SYSVideoBuffer
\* flags and VRAM flags from the old buffer": the buffer a cube shows
\* always carries the toggle bit the cube last saw, through any number
\* of attachToCube, detach, restoreCubes and pollForAttach swaps, with
\* the bit flipped while avb stood in for the game's buffer.
FlagsFollowCube ==
    \A c \in Cubes : vbuf[c] # NULL => flags[vbuf[c]] = cubeFlag[c]

=============================================================================
