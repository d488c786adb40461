------------------------------ MODULE WordBank ------------------------------
(***************************************************************************)
(* The room word list and its file (monolith wordbank.go): Set and Remove  *)
(* change the list under a lock and then save it outside of that lock,     *)
(* each save taking its own copy and truncating the file before it writes. *)
(* At start-up loadFile puts the entries back with Set, one by one, so     *)
(* every entry loaded rewrites the file with the entries loaded so far.    *)
(* One room; a word is absent or has a mode. The save of the last change   *)
(* comes before the admin's answer.                                        *)
(***************************************************************************)
EXTENDS Integers, FiniteSets

CONSTANTS
  Words, Modes, NoMode,
  Admins,       \* requests under way, one per admin
  Boot,         \* the caller of Set during loadFile
  Torn,         \* a file that does not parse
  MaxWordChanges,   \* bound: calls of Set and Remove by admins
  MaxCrashes    \* bound: crashes and failed writes

ASSUME WordBankAssumption ==
  NoMode \notin Modes /\ Boot \notin Admins /\ Torn \notin [Words -> Modes \cup {NoMode}]

VARIABLES
  words,            \* rooms[roomID]: the list in memory
  wordFile,         \* what the file holds: a list or Torn
  saver,            \* per caller: where its save is, its copy of the list and the word it changed
  booting,          \* entries loadFile has still to set; {} when the server serves
  wordUp,
  wordChanges, wordFaults,
  \* history
  book,             \* per word: its last change
  inDoubt,          \* words whose last change was not answered before a crash
  overlap,          \* two saves were under way at once
  cutShort          \* a crash or an error cut a write short, or a crash fell into loadFile

wordVars == <<words, wordFile, saver, booting, wordUp, wordChanges, wordFaults, book, inDoubt, overlap, cutShort>>

NoWords == [w \in Words |-> NoMode]
Savers == Admins \cup {Boot}
NoSave == [pc |-> "idle", copy |-> NoWords, word |-> NoMode]

WordInit ==
  /\ words = NoWords /\ wordFile = NoWords
  /\ saver = [a \in Savers |-> NoSave]
  /\ booting = {} /\ wordUp = TRUE
  /\ wordChanges = 0 /\ wordFaults = 0
  /\ book = NoWords /\ inDoubt = {} /\ overlap = FALSE /\ cutShort = FALSE

Serving == wordUp /\ booting = {} /\ saver[Boot].pc = "idle"
Writing == {a \in Savers : saver[a].pc \in {"copied", "opened"}}

Change(a, w, m, next) ==
  /\ Serving /\ wordChanges < MaxWordChanges
  /\ saver[a].pc = "idle"
  /\ words' = [words EXCEPT ![w] = m]
  /\ book' = [book EXCEPT ![w] = m]
  /\ saver' = [saver EXCEPT ![a] = [NoSave EXCEPT !.pc = next, !.word = w]]
  /\ inDoubt' = inDoubt \ {w}
  /\ wordChanges' = wordChanges + 1
  /\ UNCHANGED <<wordFile, booting, wordUp, wordFaults, overlap, cutShort>>

Set(a, w, m) == Change(a, w, m, "changed")

\* Mutant: a removal is not saved.
RemoveUnsaved(a, w) == Change(a, w, NoMode, "idle")

RemoveWord(a, w) == Change(a, w, NoMode, "changed")

\* saveFile: a copy of the list under the read lock.
SaveCopy(a) ==
  /\ saver[a].pc = "changed"
  /\ saver' = [saver EXCEPT ![a].pc = "copied", ![a].copy = words]
  /\ overlap' = (overlap \/ Writing # {})
  /\ UNCHANGED <<words, wordFile, booting, wordUp, wordChanges, wordFaults, book, inDoubt, cutShort>>

\* os.WriteFile truncates the file,
SaveOpen(a) ==
  /\ saver[a].pc = "copied"
  /\ saver' = [saver EXCEPT ![a].pc = "opened"]
  /\ wordFile' = Torn
  /\ UNCHANGED <<words, booting, wordUp, wordChanges, wordFaults, book, inDoubt, overlap, cutShort>>

\* and writes it from its beginning: over another writer's longer list it leaves that list's end.
SaveWrite(a) ==
  /\ saver[a].pc = "opened"
  /\ wordFile' \in {saver[a].copy} \cup (IF wordFile = Torn THEN {} ELSE {Torn})
  /\ saver' = [saver EXCEPT ![a] = NoSave]
  /\ UNCHANGED <<words, booting, wordUp, wordChanges, wordFaults, book, inDoubt, overlap, cutShort>>

\* The error is logged and the request answered as if it had been saved.
SaveFails(a) ==
  /\ saver[a].pc \in {"copied", "opened"} /\ wordFaults < MaxCrashes
  /\ saver' = [saver EXCEPT ![a] = NoSave]
  /\ wordFaults' = wordFaults + 1
  /\ cutShort' = TRUE
  /\ UNCHANGED <<words, wordFile, booting, wordUp, wordChanges, book, inDoubt, overlap>>

WordCrash ==
  /\ wordUp /\ wordFaults < MaxCrashes
  /\ words' = NoWords /\ booting' = {} /\ wordUp' = FALSE
  /\ saver' = [a \in Savers |-> NoSave]
  /\ inDoubt' = inDoubt \cup {saver[a].word : a \in {b \in Admins : saver[b].pc # "idle"}}
  /\ cutShort' = (cutShort \/ ~Serving \/ \E a \in Savers : saver[a].pc = "opened")
  /\ wordFaults' = wordFaults + 1
  /\ UNCHANGED <<wordFile, wordChanges, book, overlap>>

\* NewWordBank, loadFile: a file that does not parse is logged and the list starts empty.
LoadFile ==
  /\ ~wordUp /\ wordUp' = TRUE
  /\ booting' = IF wordFile = Torn THEN {}
                ELSE {[word |-> w, mode |-> wordFile[w]] : w \in {v \in Words : wordFile[v] # NoMode}}
  /\ UNCHANGED <<words, wordFile, saver, wordChanges, wordFaults, book, inDoubt, overlap, cutShort>>

LoadEntry(e) ==
  /\ wordUp /\ saver[Boot].pc = "idle"
  /\ words' = [words EXCEPT ![e.word] = e.mode]
  /\ saver' = [saver EXCEPT ![Boot] = [NoSave EXCEPT !.pc = "changed"]]
  /\ booting' = booting \ {e}
  /\ UNCHANGED <<wordFile, wordUp, wordChanges, wordFaults, book, inDoubt, overlap, cutShort>>

WordNext ==
  \/ \E a \in Admins, w \in Words : RemoveWord(a, w) \/ \E m \in Modes : Set(a, w, m)
  \/ \E a \in Savers : SaveCopy(a) \/ SaveOpen(a) \/ SaveWrite(a) \/ SaveFails(a)
  \/ WordCrash \/ LoadFile
  \/ \E e \in booting : LoadEntry(e)

WordSpec == WordInit /\ [][WordNext]_wordVars

----------------------------------------------------------------------------
\* WordsSurvive: a server that serves, however often it was restarted, enforces every word as it was
\* last set or removed, unless a crash came before that change was answered, two saves overlapped, or
\* a write or a loadFile was cut short (Set, Remove, saveFile, loadFile).
WordsSurvive ==
  Serving /\ ~overlap /\ ~cutShort => \A w \in Words \ inDoubt : words[w] = book[w]

(* The inductive invariant behind WordsSurvive                             *)

WordLists == [Words -> Modes \cup {NoMode}]
Saves == [pc : {"idle", "changed", "copied", "opened"}, copy : WordLists, word : Words \cup {NoMode}]
Entries == [word : Words, mode : Modes]

WordTypeOK ==
  /\ words \in WordLists /\ book \in WordLists /\ wordFile \in WordLists \cup {Torn}
  /\ saver \in [Savers -> Saves] /\ booting \in SUBSET Entries
  /\ wordUp \in BOOLEAN /\ overlap \in BOOLEAN /\ cutShort \in BOOLEAN
  /\ \A a \in Admins : saver[a].pc # "idle" => Serving /\ saver[a].word \in Words
  /\ ~wordUp => booting = {} /\ words = NoWords /\ \A a \in Savers : saver[a].pc = "idle"

\* Words that admins have changed and not yet copied, or not yet saved.
Uncopied == {saver[a].word : a \in {b \in Admins : saver[b].pc = "changed"}}
Unsaved == {saver[a].word : a \in {b \in Admins : saver[b].pc # "idle"}}

\* A copy lacks only changes whose own save is still to come.
CopiesCurrent ==
  /\ \A a, b \in Writing : a = b
  /\ \A a \in Writing : \A w \in Words \ Uncopied : saver[a].copy[w] = words[w]
  /\ \A a \in Savers : saver[a].pc = "opened" => wordFile = Torn

\* What is remembered of each word is in the list or still to be loaded.
ListComplete ==
  /\ \A e, f \in booting : e.word = f.word => e = f
  /\ wordUp => \A w \in Words \ inDoubt :
       \/ words[w] = book[w] /\ \A e \in booting : e.word # w
       \/ \E e \in booting : e.word = w /\ e.mode = book[w]

\* The file holds the list but for changes whose save is under way; after a crash it is all there is.
FileCurrent ==
  /\ Serving /\ (\A a \in Savers : saver[a].pc # "opened") =>
       wordFile # Torn /\ \A w \in Words \ Unsaved : wordFile[w] = words[w]
  /\ ~wordUp => wordFile # Torn /\ \A w \in Words \ inDoubt : wordFile[w] = book[w]

SaveInv == ~overlap /\ ~cutShort => CopiesCurrent /\ ListComplete /\ FileCurrent
=============================================================================
