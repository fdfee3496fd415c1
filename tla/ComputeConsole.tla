---------------------------- MODULE ComputeConsole ----------------------------
(***************************************************************************)
(* The compute page of the console, src/web/app/(app)/compute/page.tsx,   *)
(* with the modal it opens, src/web/components/compute/                    *)
(* LaunchInstanceModal.tsx.  The page holds the instance list (seeded     *)
(* with DUMMY_INSTANCES) and whether the modal is open; the modal holds    *)
(* its form.  The page never calls the API: a launch only prepends a      *)
(* record with a random id to the list.                                    *)
(*                                                                         *)
(* The modal stays mounted while closed (it renders null), so its form    *)
(* state survives closing and submitting.  The form has a name, an image, *)
(* a VPC and port mappings, each set by its own onChange; handleLaunch      *)
(* reads only data.name, the rest is dropped by the page.  The type, IP   *)
(* and creation date of a record are constants of the code, left out.    *)
(* React re-renders between two discrete events, so the list handleLaunch *)
(* captured at render is the current one and each event is one step.      *)
(***************************************************************************)
EXTENDS Naturals, Sequences, Functions, HexId

CONSTANTS
    TypedNames,   \* names the user may type into the Name field
    TypedPorts,   \* port mappings the user may type
    Draws,        \* values Math.floor(Math.random() * 10000) may return
    MaxLaunches   \* launches in a behaviour

ASSUME Draws \subseteq 0..(DrawBound - 1) /\ MaxLaunches \in Nat

VARIABLES
    isModalOpen,  \* page state isModalOpen
    instances,    \* page state instances, newest first
    formData      \* modal state formData

vars == <<isModalOpen, instances, formData>>

\* DUMMY_INSTANCES (lines 19-24); ids as their hex digits.
DUMMY_INSTANCES ==
    << [id |-> <<8, 2, 3, 1>>,   name |-> "Web Server 01", status |-> "running"],
       [id |-> <<9, 9, 2, 10>>,  name |-> "Worker Node",   status |-> "running"],
       [id |-> <<1, 1, 11, 2>>,  name |-> "DB Replica",    status |-> "stopped"],
       [id |-> <<3, 3, 12, 4>>,  name |-> "Cache Layer",   status |-> "error"] >>

\* The options of the Image and VPC selects (modal lines 69-72, 83-84).
IMAGES == {"ubuntu-22.04", "alpine-3.18", "nginx-latest", "postgres-15"}
VPCS == {"default-vpc", "prod-net"}

\* The form's initial state (modal lines 23-28).
InitialForm == [name |-> "", image |-> "ubuntu-22.04", ports |-> "80:80", vpc |-> "default-vpc"]

Names == TypedNames \cup {"", "Web Server 01", "Worker Node", "DB Replica", "Cache Layer"}

Init ==
    /\ isModalOpen = FALSE
    /\ instances = DUMMY_INSTANCES
    /\ formData = InitialForm

\* "Launch Instance" button (line 69).  While the modal is open its
\* overlay covers the page; setting true again would change nothing.
OpenModal ==
    /\ ~isModalOpen
    /\ isModalOpen' = TRUE
    /\ UNCHANGED <<instances, formData>>

\* Mutant: the update drops the spread and keeps the name only.
EditNameMutant(v) ==
    /\ isModalOpen
    /\ formData' = [name |-> v]
    /\ UNCHANGED <<isModalOpen, instances>>

\* The Name input's onChange (modal lines 51-58).  The modal renders
\* null while closed (line 30), so its inputs exist only while open.
EditName(v) ==
    /\ isModalOpen
    /\ formData' = [formData EXCEPT !.name = v]
    /\ UNCHANGED <<isModalOpen, instances>>

\* The Image select's onChange (modal lines 64-73).
EditImage(v) ==
    /\ isModalOpen
    /\ formData' = [formData EXCEPT !.image = v]
    /\ UNCHANGED <<isModalOpen, instances>>

\* The VPC select's onChange (modal lines 78-85).
EditVpc(v) ==
    /\ isModalOpen
    /\ formData' = [formData EXCEPT !.vpc = v]
    /\ UNCHANGED <<isModalOpen, instances>>

\* The Port Mapping input's onChange (modal lines 91-97).
EditPorts(v) ==
    /\ isModalOpen
    /\ formData' = [formData EXCEPT !.ports = v]
    /\ UNCHANGED <<isModalOpen, instances>>

\* handleLaunch (page lines 30-41) builds the new record.
NewInstance(d) == [id |-> ToHex(d), name |-> formData.name, status |-> "pending"]

HandleLaunch(d) == instances' = <<NewInstance(d)>> \o instances

\* Launch button: handleSubmit (modal lines 32-36) calls onSubmit, that
\* is handleLaunch with the form, then onClose; the form is not reset.
Submit(d) ==
    /\ isModalOpen
    /\ Len(instances) < Len(DUMMY_INSTANCES) + MaxLaunches
    /\ HandleLaunch(d)
    /\ isModalOpen' = FALSE
    /\ UNCHANGED formData

\* The X button (modal line 43) and Cancel (line 102) call onClose,
\* which the page binds to setIsModalOpen(false) (page line 79).
Close ==
    /\ isModalOpen
    /\ isModalOpen' = FALSE
    /\ UNCHANGED <<instances, formData>>

Next ==
    \/ OpenModal
    \/ \E v \in TypedNames : EditName(v)
    \/ \E v \in IMAGES : EditImage(v)
    \/ \E v \in VPCS : EditVpc(v)
    \/ \E v \in TypedPorts : EditPorts(v)
    \/ \E d \in Draws : Submit(d)
    \/ Close

Spec == Init /\ [][Next]_vars

\* The Instance ID column: the page's column with accessorKey 'id' (page
\* lines 43-46), which Table renders row by row in list order, one cell
\* String(item.id) per row (Table.tsx lines 33-47).
IdColumn == [k \in DOMAIN instances |-> instances[k].id]

(***************************************************************************)
(* Properties.                                                             *)
(***************************************************************************)
InstanceRec == [id : Seq(HexDigits), name : Names,
                status : {"running", "stopped", "pending", "error"}]

TypeOK ==
    /\ isModalOpen \in BOOLEAN
    /\ instances \in Seq(InstanceRec)
    /\ formData \in [name : Names, image : IMAGES, ports : TypedPorts \cup {"80:80"},
                      vpc : VPCS]
    /\ Len(instances) <= Len(DUMMY_INSTANCES) + MaxLaunches

\* The data model (spec 3) says an instance id is unique: no two rows of
\* the table carry the same id.
UniqueInstanceIds == IsInjective(IdColumn)

=============================================================================
