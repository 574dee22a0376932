------------------------------ MODULE LineArchive ------------------------------
(***************************************************************************)
(* What the pair record_compress / record_decompress promises, said        *)
(* without windows, references, blocks or formats: lines of a file become  *)
(* durable in order, the archive is closed when the compressor stops, and  *)
(* from a closed archive the decompressor hands back the durable lines,    *)
(* one by one, in order, and stops only when it has handed back all of     *)
(* them or has refused the archive before handing back any.                *)
(***************************************************************************)
EXTENDS Naturals, Sequences

CONSTANT Inputs            \* the files that may be compressed

VARIABLES
  file,      \* the lines of the file
  durable,   \* how many of them the archive holds
  closed,    \* the compressor has stopped: "no", "complete" or "cut"
  restored,  \* what the decompressor has handed back
  verdict    \* "none" while it runs, then "success" or "refused"

archiveVars == <<file, durable, closed, restored, verdict>>

ArchiveInit ==
  /\ file \in Inputs
  /\ durable = 0
  /\ closed = "no"
  /\ restored = <<>>
  /\ verdict = "none"

(* Some more lines become durable. *)
Store ==
  /\ closed = "no"
  /\ durable' \in durable..Len(file)
  /\ UNCHANGED <<file, closed, restored, verdict>>

(* The compressor stops: having stored every line, or cut short. *)
Close ==
  /\ closed = "no"
  /\ closed' \in {"complete", "cut"}
  /\ closed' = "complete" => durable' = Len(file)
  /\ durable' \in durable..Len(file)
  /\ UNCHANGED <<file, restored, verdict>>

(* The decompressor hands back the next durable line. *)
Restore ==
  /\ closed # "no" /\ verdict = "none"
  /\ Len(restored) < durable
  /\ restored' = Append(restored, file[Len(restored) + 1])
  /\ UNCHANGED <<file, durable, closed, verdict>>

(* It reports success with every durable line handed back ... *)
Succeed ==
  /\ closed # "no" /\ verdict = "none"
  /\ Len(restored) = durable
  /\ verdict' = "success"
  /\ UNCHANGED <<file, durable, closed, restored>>

(* ... or refuses an archive that was cut before it held a line. *)
Refuse ==
  /\ closed = "cut" /\ verdict = "none"
  /\ durable = 0
  /\ verdict' = "refused"
  /\ UNCHANGED <<file, durable, closed, restored>>

ArchiveNext == Store \/ Close \/ Restore \/ Succeed \/ Refuse

ArchiveSpec == ArchiveInit /\ [][ArchiveNext]_archiveVars
================================================================================
