\* Three mounts: StrictMode mount, unmount, mount, then leaving and re-entering the page.
CONSTANTS
    MaxMounts = 3
    MaxHandles = 8

SPECIFICATION Spec

INVARIANTS
    LoopStopsAtCleanup
