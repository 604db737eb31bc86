----------------------------- MODULE MCFreelists -----------------------------
(* The two allocators on a small file: newFreelist makes one of them for   *)
(* the life of the DB; the other one stays empty.                          *)
EXTENDS HashMapFreelist

VARIABLES
  freelistType,
  slice,                    \* array.ids
  merged, lead, follow,     \* of its Mergepgids
  sliceRet                  \* what the array's last Allocate returned

arrayVars == <<slice, merged, lead, follow, sliceRet>>

array == INSTANCE ArrayFreelist WITH ids <- slice, ret <- sliceRet

newFreelist ==
  \/ /\ freelistType = "hashmap"
     /\ Init /\ slice = <<>> /\ merged = <<>> /\ lead = <<>> /\ follow = <<>> /\ sliceRet = 0
  \/ /\ freelistType = "array"
     /\ array!Init /\ spans = Loaded({}) /\ ids = {} /\ ret = 0

FreelistsNext ==
  \/ freelistType = "hashmap" /\ Next /\ UNCHANGED <<freelistType, arrayVars>>
  \/ freelistType = "array" /\ array!Next /\ UNCHANGED <<freelistType, vars>>

FreelistsSpec == newFreelist /\ [][FreelistsNext]_<<vars, freelistType, arrayVars>>

(* The array's slice is sorted without duplicates.                         *)
ArraySorted == array!TypeOK

(* The array finds a run whenever there is one, takes exactly that run,    *)
(* and its merge neither loses nor adds an id.                             *)
ArrayImplementsPageSet == array!ImplementsPageSet
=============================================================================
