------------------------------- MODULE JsonFile -------------------------------
(***************************************************************************)
(* A JSON file written with writeJsonFileAtomic and read with              *)
(* readJsonFileSync (src/service/persistence/json-file.ts).                *)
(*                                                                         *)
(* The temporary file has one fixed name and there is no lock, so writers  *)
(* that overlap open the same file: the second open truncates what the     *)
(* first has written, and the first rename moves the file the second still *)
(* has open.  A writer's fd says where the file it opened is now.          *)
(***************************************************************************)
CONSTANTS
  None,        \* no such file
  Empty,       \* a file without content
  Torn,        \* a file whose content does not parse
  Slots        \* bound of the model: one for every write under way at once

VARIABLES
  disk,     \* what the file and the temporary file hold
  writers   \* calls of writeJsonFileAtomic under way

fileVars == <<disk, writers>>

Places == {"none", "tmp", "file", "gone"}

FileInit ==
  /\ disk = [file |-> None, tmp |-> None]
  /\ writers = [w \in {} |-> None]

\* readJsonFileSync returns null for a missing file and for one it cannot parse.
Legible(content) == content \notin {None, Empty, Torn}

\* What can be read now or once the calls under way are over.
Contents ==
  {c \in {disk.file, disk.tmp} \cup {writers[w].content : w \in DOMAIN writers} : Legible(c)}

\* The call of writeJsonFileAtomic, up to its first await.
WriteJson(content) ==
  /\ \E new \in Slots \ DOMAIN writers :
       writers' = [w \in DOMAIN writers \cup {new} |->
                     IF w = new THEN [step |-> "open", fd |-> "none", content |-> content]
                     ELSE writers[w]]
  /\ UNCHANGED disk

\* fsp.writeFile opens the temporary file with flag w, which truncates it ...
OpensTmp(w) ==
  /\ w \in DOMAIN writers /\ writers[w].step = "open"
  /\ disk' = [disk EXCEPT !.tmp = Empty]
  /\ writers' = [writers EXCEPT ![w].step = "write", ![w].fd = "tmp"]

\* ... and writes from the start of it.  Over a longer content that is not its
\* own it leaves a tail behind.
Overlaid(old, content) == IF old \in {Empty, content} THEN {content} ELSE {content, Torn}

Writes(w) ==
  /\ w \in DOMAIN writers /\ writers[w].step = "write"
  /\ \/ /\ writers[w].fd = "tmp"
        /\ \E c \in Overlaid(disk.tmp, writers[w].content) : disk' = [disk EXCEPT !.tmp = c]
     \/ /\ writers[w].fd = "file"
        /\ \E c \in Overlaid(disk.file, writers[w].content) : disk' = [disk EXCEPT !.file = c]
     \/ writers[w].fd = "gone" /\ UNCHANGED disk
  /\ writers' = [writers EXCEPT ![w].step = "rename"]

\* The file another writer has open moves with the name.
Follows(fd) == IF fd = "tmp" THEN "file" ELSE IF fd = "file" THEN "gone" ELSE fd

Others(w) == [v \in DOMAIN writers \ {w} |-> writers[v]]

\* fsp.rename; ENOENT when another writer renamed the temporary file before.
Renames(w) ==
  /\ w \in DOMAIN writers /\ writers[w].step = "rename"
  /\ \/ /\ disk.tmp # None
        /\ disk' = [file |-> disk.tmp, tmp |-> None]
        /\ writers' = [v \in DOMAIN writers \ {w} |->
                         [writers[v] EXCEPT !.fd = Follows(writers[v].fd)]]
     \/ /\ disk.tmp = None
        /\ writers' = Others(w)
        /\ UNCHANGED disk

WriterStep == \E w \in DOMAIN writers : OpensTmp(w) \/ Writes(w) \/ Renames(w)

\* The process dies: writes under way stop where they are.
WritersDie ==
  /\ writers' = [w \in {} |-> None]
  /\ UNCHANGED disk
=============================================================================
