------------------------------ MODULE Metadata -------------------------------
(* src/filestorage/metadata.go: a FileMetadata, whose setters may be called   *)
(* in any order, with any of their arguments left empty.                      *)
EXTENDS Naturals

CONSTANTS Ids, Sizes, Checksums, Formats, Times   \* the arguments that are not empty

Unset == "unset"

ASSUME ArgumentsAssumption == Unset \notin Ids

VARIABLES
  id,       \* RawDoc.ID
  info,     \* RawFileMetadata's size, checksum and format
  stored,   \* RawFileMetadata.Stored
  named,    \* history: the ids for which SetID returned false
  accepted  \* history: the arguments with which SetFileInfo returned nil

metadataVars == <<id, info, stored, named, accepted>>

MetadataInit ==                                                 \* NewMetadata
  /\ id = Unset /\ stored = Unset /\ named = {} /\ accepted = {}
  /\ info = [size |-> 0, checksum |-> Unset, format |-> Unset]

SetID ==
  /\ \E i \in Ids :
       IF id # Unset THEN UNCHANGED <<id, named>>
       ELSE id' = i /\ named' = named \cup {i}
  /\ UNCHANGED <<info, stored, accepted>>

(* "Fall back to existing values."                                            *)
fallback(a) ==
  [size     |-> IF a.size = 0 THEN info.size ELSE a.size,
   checksum |-> IF a.checksum = Unset THEN info.checksum ELSE a.checksum,
   format   |-> IF a.format = Unset THEN info.format ELSE a.format]

complete(n) == (n.checksum = Unset) = (n.format = Unset)

(* "Only allow setting once."                                                 *)
sizeOnly(n) == info.size # 0 => n.size = info.size                \* mutant
unchanged(n) ==
  /\ info.size # 0 => n.size = info.size
  /\ info.checksum # Unset => n.checksum = info.checksum
  /\ info.format # Unset => n.format = info.format

Arguments == [size : Sizes \cup {0}, checksum : Checksums \cup {Unset}, format : Formats \cup {Unset}]

SetFileInfo ==
  /\ \E a \in Arguments :
       IF complete(fallback(a)) /\ unchanged(fallback(a))
         THEN info' = fallback(a) /\ accepted' = accepted \cup {a}
         ELSE UNCHANGED <<info, accepted>>
  /\ UNCHANGED <<id, stored, named>>

(* Without a timestamp, the current time.  The time of an earlier call is     *)
(* replaced: Stored is when the file was last stored.                         *)
SetStored == \E t \in Times : stored' = t /\ UNCHANGED <<id, info, named, accepted>>

MetadataNext == SetID \/ SetFileInfo \/ SetStored

MetadataSpec == MetadataInit /\ [][MetadataNext]_metadataVars

(* Whatever the order of the calls, and whichever arguments they leave empty: *)
(* every value that an accepted SetFileInfo was given is what the metadata    *)
(* say, so no two accepted calls disagree and a later one undoes nothing; the *)
(* metadata say nothing that no accepted call gave, so a refused call leaves  *)
(* nothing behind; the checksum and its format are known together; and SetID  *)
(* takes one id.                                                              *)
InfoAgrees ==
  /\ \A a \in accepted : /\ a.size \in {0, info.size}
                         /\ a.checksum \in {Unset, info.checksum}
                         /\ a.format \in {Unset, info.format}
  /\ info.size # 0 => \E a \in accepted : a.size = info.size
  /\ complete(info)
  /\ info.checksum # Unset =>
       \E a \in accepted : a.checksum = info.checksum /\ a.format = info.format
  /\ named = {id} \ {Unset}
=============================================================================
