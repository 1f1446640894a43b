------------------------------ MODULE AlgoFiles ------------------------------
(***************************************************************************)
(* The algo file editor of Connection::OnMessageSync (verbs "algoFile",    *)
(* "deleteAlgoFile", "saveAlgoFile") and the "algoFiles" listing that      *)
(* OnLogin sends (src/opentrade/connection.cc).                            *)
(*                                                                         *)
(* Every session runs its handlers on its own strand, and strands of       *)
(* different sessions run in parallel on the io threads, so the file       *)
(* system under kAlgoPath is shared.  A "saveAlgoFile" handler is two      *)
(* steps as far as other threads see: the std::ofstream constructor opens  *)
(* the file truncated, then `os << text' writes it from offset 0 (the      *)
(* buffer reaches the file at the latest when `os' is destroyed).  The     *)
(* other verbs are one system call each.                                   *)
(*                                                                         *)
(* A file is [ino, text]: its inode, so that a write through a handle to a *)
(* deleted file is lost, and its text as a sequence of bytes.  A file name *)
(* is a model value naming an entry directly under kAlgoPath; names with   *)
(* a '/' or ".." are not modelled.                                         *)
(***************************************************************************)
EXTENDS Naturals, Sequences

CONSTANTS
  Sessions,  \* logged-in sessions
  Names,     \* file names clients send
  Hidden,    \* the names beginning with '_' or '.'
  Texts,     \* texts clients save, as byte sequences
  MaxMsgs    \* messages explored

ASSUME Hidden \subseteq Names /\ MaxMsgs \in Nat

NoFile == [ino |-> 0]
None == [verb |-> "none"]

VARIABLES
  disk,     \* disk[fn]: the file kAlgoPath / fn, or NoFile
  pending,  \* pending[s]: the open ofstream of a save in progress, or None
  reply,    \* reply[s]: the frame session s wrote last, or None
  nIno,     \* inodes created so far
  nMsgs     \* messages handled so far

vars == <<disk, pending, reply, nIno, nMsgs>>

Init == /\ disk = [fn \in Names |-> NoFile]
        /\ pending = [s \in Sessions |-> None]
        /\ reply = [s \in Sessions |-> None]
        /\ nIno = 0
        /\ nMsgs = 0

(* A handler starts when the strand of s is free.                         *)
Receive(s) == pending[s] = None /\ nMsgs < MaxMsgs /\ nMsgs' = nMsgs + 1

(* "algoFile": the ifstream reads the whole file, or the reply is         *)
(* [action, fn, null, "Not found"].                                       *)
AlgoFile(s, fn) ==
  /\ Receive(s)
  /\ reply' = [reply EXCEPT ![s] =
                 IF disk[fn] = NoFile
                 THEN [verb |-> "algoFile", fn |-> fn, found |-> FALSE]
                 ELSE [verb |-> "algoFile", fn |-> fn, found |-> TRUE,
                       text |-> disk[fn].text]]
  /\ UNCHANGED <<disk, pending, nIno>>

(* "deleteAlgoFile": fs::remove unlinks the entry (a missing one is no    *)
(* error); a filesystem_error adds its text to the reply.                 *)
DeleteAlgoFile(s, fn) ==
  /\ Receive(s)
  /\ \/ /\ disk' = [disk EXCEPT ![fn] = NoFile]
        /\ reply' = [reply EXCEPT ![s] = [verb |-> "deleteAlgoFile", fn |-> fn, err |-> FALSE]]
     \/ /\ reply' = [reply EXCEPT ![s] = [verb |-> "deleteAlgoFile", fn |-> fn, err |-> TRUE]]
        /\ UNCHANGED disk
  /\ UNCHANGED <<pending, nIno>>

(* "saveAlgoFile", first step: std::ofstream opens the file truncated,    *)
(* creating it (a new inode) when missing.  When the open fails the       *)
(* reply carries "Can not write" and the file is left alone.              *)
SaveOpen(s, fn, text) ==
  /\ Receive(s)
  /\ \/ LET ino == IF disk[fn] = NoFile THEN nIno + 1 ELSE disk[fn].ino
        IN /\ disk' = [disk EXCEPT ![fn] = [ino |-> ino, text |-> <<>>]]
           /\ nIno' = IF disk[fn] = NoFile THEN nIno + 1 ELSE nIno
           /\ pending' = [pending EXCEPT ![s] = [fn |-> fn, ino |-> ino, text |-> text]]
           /\ UNCHANGED reply
     \/ /\ reply' = [reply EXCEPT ![s] = [verb |-> "saveAlgoFile", fn |-> fn, err |-> TRUE]]
        /\ UNCHANGED <<disk, pending, nIno>>

(* The bytes `text' overwrite `c' from offset 0.                          *)
Overwrite(c, text) ==
  IF Len(text) >= Len(c) THEN text ELSE text \o SubSeq(c, Len(text) + 1, Len(c))

(* "saveAlgoFile", second step: `os << text' and the reply; the bytes go  *)
(* to the inode the handle opened, lost if that entry was deleted since.  *)
SaveWrite(s) ==
  /\ pending[s] # None
  /\ LET p == pending[s]
     IN /\ disk' = IF disk[p.fn] # NoFile /\ disk[p.fn].ino = p.ino
                   THEN [disk EXCEPT ![p.fn].text = Overwrite(@, p.text)]
                   ELSE disk
        /\ reply' = [reply EXCEPT ![s] = [verb |-> "saveAlgoFile", fn |-> p.fn, err |-> FALSE]]
  /\ pending' = [pending EXCEPT ![s] = None]
  /\ UNCHANGED <<nIno, nMsgs>>

(* The end of OnLogin: the entries of kAlgoPath but those beginning with  *)
(* '_' or '.', sent only when there is one.                               *)
Listed == {fn \in Names \ Hidden : disk[fn] # NoFile}
ListFiles(s) ==
  /\ Receive(s)
  /\ reply' = [reply EXCEPT ![s] =
                 IF Listed = {} THEN None ELSE [verb |-> "algoFiles", files |-> Listed]]
  /\ UNCHANGED <<disk, pending, nIno>>

Next ==
  \E s \in Sessions :
    \/ \E fn \in Names : AlgoFile(s, fn) \/ DeleteAlgoFile(s, fn)
    \/ \E fn \in Names, t \in Texts : SaveOpen(s, fn, t)
    \/ SaveWrite(s)
    \/ ListFiles(s)

Spec == Init /\ [][Next]_vars /\ \A s \in Sessions : WF_vars(SaveWrite(s))

-----------------------------------------------------------------------------
(* Spec 4.F (saveAlgoFile overwrites the file): once no save is in        *)
(* progress, every file under kAlgoPath holds a text some client saved.   *)
(* Two sessions saving one name interleave open, open, write, write, and  *)
(* the shorter text lands on the longer one's bytes.                      *)
SettledFilesWhole ==
  (\A s \in Sessions : pending[s] = None) =>
    \A fn \in Names : disk[fn] = NoFile \/ disk[fn].text \in Texts
=============================================================================
