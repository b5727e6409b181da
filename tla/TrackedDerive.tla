--------------------------- MODULE TrackedDerive ---------------------------
(***************************************************************************)
(* #[laplace_tracked] on a struct: fields marked #[track] become tracked   *)
(* primitives under a resource name, the name of the field or the one      *)
(* given, and a Default is generated for the struct.  The name is all the  *)
(* verifier knows of a resource.                                           *)
(*                                                                         *)
(* The type of a field is what its path ends with, whether it is qualified *)
(* with std::sync, and whether it has a generic argument.                  *)
(***************************************************************************)
EXTENDS Naturals, Sequences

CONSTANTS
  FieldInputs,  \* fields that are written
  MaxFields     \* bound on the fields of a struct

VARIABLES
  fields,    \* the fields expanded so far, as they come out
  names,     \* resource_names
  expansion  \* going on, done or refused

deriveVars == <<fields, names, expansion>>

DeriveInit == fields = << >> /\ names = {} /\ expansion = "going"

-----------------------------------------------------------------------------
Atomics == {"AtomicBool", "AtomicU32", "AtomicU64", "AtomicUsize"}

\* map_field_type_to_tracked: the wrapper, or Unsupported.  A lock named without
\* std::sync is taken for tokio's.
Unsupported == "unsupported"

MapFieldType(f) ==
  LET lock == f.ty.generic IN
  CASE lock /\ f.ty.ends = "Mutex" /\ f.ty.std   -> "TrackedStdMutex"
    [] lock /\ f.ty.ends = "RwLock" /\ f.ty.std  -> "TrackedStdRwLock"
    [] lock /\ f.ty.ends = "Mutex" /\ ~f.ty.std  -> "TrackedMutex"
    [] lock /\ f.ty.ends = "RwLock" /\ ~f.ty.std -> "TrackedRwLock"
    [] f.ty.ends \in Atomics -> "TrackedAtomic"
    [] f.ty.ends = "Semaphore" /\ "permits" \in f.options -> "TrackedSemaphore"
    [] OTHER -> Unsupported

\* extract_track_options: a name in a string and permits in a number, nothing else.
OptionsOK(f) == f.options \subseteq {"name", "permits"}

ResourceName(f) == IF "name" \in f.options THEN f.name ELSE f.ident

\* A faulty variant: the names of the fields are compared.
NameTakenByIdent(f) == \E i \in 1..Len(fields) : fields[i].ident = f.ident

NameTaken(f) == ResourceName(f) \in names

\* expand_attribute, one field.
ExpandField(f) ==
  /\ expansion = "going" /\ Len(fields) < MaxFields
  /\ \A i \in 1..Len(fields) : fields[i].ident # f.ident
  /\ IF ~f.track
     THEN /\ fields' = Append(fields, [ident |-> f.ident, resource |-> "none", wrapper |-> "none"])
          /\ UNCHANGED <<names, expansion>>
     ELSE IF ~OptionsOK(f) \/ NameTaken(f) \/ MapFieldType(f) = Unsupported
     THEN expansion' = "refused" /\ UNCHANGED <<fields, names>>
     ELSE /\ fields' = Append(fields, [ident    |-> f.ident,
                                       resource |-> ResourceName(f),
                                       wrapper  |-> MapFieldType(f)])
          /\ names' = names \cup {ResourceName(f)}
          /\ UNCHANGED expansion

\* The struct and its Default, which names every field once.
EndStruct ==
  /\ expansion = "going"
  /\ expansion' = "done"
  /\ UNCHANGED <<fields, names>>

DeriveNext == EndStruct \/ \E f \in FieldInputs : ExpandField(f)

DeriveSpec == DeriveInit /\ [][DeriveNext]_deriveVars

-----------------------------------------------------------------------------
(* Properties. *)

\* Two tracked fields of a struct never share a resource: the verifier, which
\* keys locks by name, would take them for one lock and see no order between
\* them.  This holds whether a name is given, taken from the field or both.
ResourcesDistinct ==
  \A i, j \in 1..Len(fields) :
    i # j /\ fields[i].wrapper # "none" /\ fields[j].wrapper # "none"
      => fields[i].resource # fields[j].resource
=============================================================================
