------------------------------- MODULE Offline -------------------------------
(***************************************************************************)
(* The offline program: main creates and stores the page library, then     *)
(* PageLibPreprocessor reads it back, drops redundant pages, and builds    *)
(* and stores the index, which the online program reads.  The two halves   *)
(* meet in the files of the library only, whose pages the second half      *)
(* takes as they come: a behaviour is one of the first half, or of the XML *)
(* library on its own, or one of the second.                               *)
(***************************************************************************)
EXTENDS PageLib, SearchIndex

offlineVars == <<libraryVars, allVars>>

\* PageLib::create and store have not begun.
LibraryIdle ==
  /\ LibIdle /\ DocIdle
  /\ source = Null /\ pair = Reset /\ libStage = "off" /\ fs = Null

\* An empty index, which there is nothing to do for.
IndexIdle ==
  /\ pageLib = <<>> /\ loaded = {} /\ similar = {} /\ i = 0 /\ j = 0 /\ pc = "done"
  /\ stage = "ready" /\ index = <<>> /\ unstored = {}
  /\ indexFile = <<>> /\ pageFile = <<>> /\ offsetFile = <<>>
  /\ texts = <<>> /\ table = <<>> /\ word = EmptyWord /\ pairs = {} /\ next = 0 /\ fields = <<>>

OfflineInit == (LibInit /\ IndexIdle) \/ (IndexInit /\ LibraryIdle)

OfflineNext ==
  \/ LibNext /\ UNCHANGED allVars
  \/ IndexNext /\ UNCHANGED libraryVars

\* doProcess runs on one thread, as the constructor of WordQuery does.
OfflineSpec ==
  OfflineInit /\ [][OfflineNext]_offlineVars /\ WF_allVars(IndexNext)
=============================================================================
