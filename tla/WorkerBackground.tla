--------------------------- MODULE WorkerBackground ---------------------------
(***************************************************************************)
(* The canvas render loop of src/web/components/marketing/                 *)
(* WorkerBackground.tsx.  The component's effect registers a resize       *)
(* listener and starts a requestAnimationFrame loop: every call of draw    *)
(* paints a frame and requests the next one.  The effect's cleanup removes *)
(* the listener and cancels the handle the effect captured, which is the   *)
(* handle of the loop's first frame only.                                  *)
(*                                                                         *)
(* React runs the effect on each mount and the cleanup on each unmount (in *)
(* development StrictMode mounts, unmounts and mounts again); the browser  *)
(* fires pending animation-frame callbacks in between.  Drawing itself    *)
(* (grid, packets, canvas size) is left out: only which loop is scheduled. *)
(***************************************************************************)
EXTENDS Naturals, FiniteSets

CONSTANTS
    MaxMounts,   \* effect runs (mounts) in a behaviour
    MaxHandles   \* animation-frame handles the browser hands out

ASSUME MaxMounts \in Nat \ {0} /\ MaxHandles \in Nat \ {0}

Mounts == 1..MaxMounts

VARIABLES
    mounts,      \* effect runs so far; mount m is the m-th
    live,        \* mounts whose cleanup has not run
    listeners,   \* mounts whose resize listener is on window
    pending,     \* scheduled callbacks [handle, mount] of draw
    animationId, \* animationId[m]: the handle mount m's effect captured
    nextHandle   \* the browser's next requestAnimationFrame handle

vars == <<mounts, live, listeners, pending, animationId, nextHandle>>

Init ==
    /\ mounts = 0
    /\ live = {}
    /\ listeners = {}
    /\ pending = {}
    /\ animationId = [m \in Mounts |-> 0]
    /\ nextHandle = 1

\* requestAnimationFrame(draw) for mount m: a fresh handle.
Request(m) == [handle |-> nextHandle, mount |-> m]

\* Mutant: the handle is not stored (requestAnimationFrame(draw) alone).
MountUncapturedMutant ==
    LET m == mounts + 1 IN
    /\ live = {}
    /\ mounts < MaxMounts
    /\ nextHandle < MaxHandles
    /\ mounts' = m
    /\ live' = {m}
    /\ listeners' = listeners \cup {m}
    /\ pending' = pending \cup {Request(m)}
    /\ UNCHANGED animationId
    /\ nextHandle' = nextHandle + 1

\* Mutant: the effect also calls draw() directly, starting a second chain.
MountTwiceMutant ==
    LET m == mounts + 1 IN
    /\ live = {}
    /\ mounts < MaxMounts
    /\ nextHandle + 1 < MaxHandles
    /\ mounts' = m
    /\ live' = {m}
    /\ listeners' = listeners \cup {m}
    /\ pending' = pending \cup {Request(m), [handle |-> nextHandle + 1, mount |-> m]}
    /\ animationId' = [animationId EXCEPT ![m] = nextHandle]
    /\ nextHandle' = nextHandle + 2

\* The effect (lines 9-103): canvas and context exist once committed.
Mount ==
    LET m == mounts + 1 IN
    /\ live = {}
    /\ mounts < MaxMounts
    /\ nextHandle < MaxHandles
    /\ mounts' = m
    /\ live' = {m}
    /\ listeners' = listeners \cup {m}
    /\ pending' = pending \cup {Request(m)}
    /\ animationId' = [animationId EXCEPT ![m] = nextHandle]
    /\ nextHandle' = nextHandle + 1

\* The browser runs a scheduled draw (lines 33-95), which ends by
\* requesting the next frame of the same loop.
Draw(f) ==
    /\ f \in pending
    /\ nextHandle < MaxHandles
    /\ pending' = (pending \ {f}) \cup {Request(f.mount)}
    /\ nextHandle' = nextHandle + 1
    /\ UNCHANGED <<mounts, live, listeners, animationId>>

\* Mutant: the cleanup does not remove the resize listener.
CleanupMutant ==
    \E m \in live :
        /\ live' = live \ {m}
        /\ pending' = {f \in pending : f.handle # animationId[m]}
        /\ UNCHANGED <<mounts, listeners, animationId, nextHandle>>

\* The cleanup (lines 99-102).
Cleanup ==
    \E m \in live :
        /\ live' = live \ {m}
        /\ listeners' = listeners \ {m}
        /\ pending' = {f \in pending : f.handle # animationId[m]}
        /\ UNCHANGED <<mounts, animationId, nextHandle>>

\* The page stays open with nothing more to model: the handles are spent,
\* or every mount has been cleaned up and no frame is scheduled.
Idle ==
    /\ \/ nextHandle = MaxHandles
       \/ mounts = MaxMounts /\ live = {} /\ pending = {}
    /\ UNCHANGED vars

Next ==
    \/ Mount
    \/ \E f \in pending : Draw(f)
    \/ Cleanup
    \/ Idle

Spec == Init /\ [][Next]_vars

(***************************************************************************)
(* Properties.                                                             *)
(***************************************************************************)
TypeOK ==
    /\ mounts \in 0..MaxMounts
    /\ live \subseteq 1..mounts
    /\ listeners \subseteq 1..mounts
    /\ pending \subseteq [handle : 1..MaxHandles, mount : Mounts]
    /\ animationId \in [Mounts -> 0..MaxHandles]
    /\ \A m \in 1..mounts : animationId[m] \in 1..MaxHandles
    /\ nextHandle \in 1..MaxHandles

\* addEventListener / removeEventListener with the same function: across
\* any sequence of mounts, frames and unmounts, the resize listeners on
\* window are exactly those of the mounts still live.
ListenersMatchMounts == listeners = live

\* draw requests one frame per call, so each mount's loop is one chain:
\* at most one of its frames is scheduled at any time.
OneFramePerLoop ==
    \A m \in Mounts : Cardinality({f \in pending : f.mount = m}) <= 1

\* What the cleanup's cancelAnimationFrame is there for: once a mount's
\* cleanup has run, none of its frames is scheduled any more.
LoopStopsAtCleanup == \A f \in pending : f.mount \in live

=============================================================================
