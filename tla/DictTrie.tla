------------------------------ MODULE DictTrie ------------------------------
(***************************************************************************)
(* cppjieba's dictionary: the lines of the dictionary and of the user      *)
(* dictionary become units, the units the values of a trie, and words can  *)
(* be added later.                                                         *)
(*                                                                         *)
(* A line is what Split makes of it: the bytes of its word, its frequency  *)
(* and tag, and how many columns it has (an empty line has none).  A trie  *)
(* maps its nodes, each given by the runes that lead to it, to pointers.   *)
(* A weight is the logarithm of frequency / total; the frequency stands    *)
(* for it, since it is only added up and compared.                         *)
(***************************************************************************)
EXTENDS Utf8

CONSTANTS
  DictFiles,   \* possible dictionaries: sequences of lines
  UserFiles,   \* possible user dictionaries
  UserWords,   \* words that are added later
  MaxInserts,  \* bound: how many of them
  Garbage      \* what an uninitialised weight may be

\* What Split makes of the lines, whether they are well formed or not.
ASSUME DictAssumption ==
  /\ MaxInserts \in Nat /\ Garbage \subseteq Nat
  /\ DictFiles \subseteq Seq([word : Seq(Byte), freq : Nat, tag : STRING, cols : Nat])
  /\ UserFiles \subseteq Seq([word : Seq(Byte), tag : STRING, cols : Nat])
  /\ UserWords \subseteq Seq(Byte)

VARIABLES
  dictFile, userFile,   \* what is to be read
  stage,       \* "dict", "user", "trie", "ready" or "aborted"
  lineno,      \* lines read, or words put into the trie
  info,        \* LoadDict's node_info, which lives from line to line and ends with it
  static,      \* static_node_infos_
  active,      \* active_node_infos_
  weights,     \* total, min_weight_ and user_word_default_weight_
  singles,     \* user_dict_single_chinese_word_
  trie         \* node -> pointer, None where no word ends

dictVars == <<dictFile, userFile, stage, lineno, info, static, active, weights, singles, trie>>

None == <<"none", 0>>
Static(i) == <<"static", i>>
Active(i) == <<"active", i>>

\* The unit a pointer points at.
Unit(p) == IF p[1] = "static" THEN static[p[2]] ELSE active[p[2]]

DictInit ==
  /\ dictFile \in DictFiles
  /\ userFile \in UserFiles
  /\ stage = "dict"
  /\ lineno = 0
  /\ info \in [word : {<<>>}, freq : Garbage, tag : {""}]
  /\ static = <<>> /\ active = <<>>
  /\ weights = [total |-> 0, min |-> 0, user |-> 0]
  /\ singles = {}
  /\ trie = <<>>

Abort ==
  /\ stage' = "aborted"
  /\ UNCHANGED <<dictFile, userFile, lineno, info, static, active, weights, singles, trie>>

\* MakeNodeInfo: a word that does not decode leaves its first runes in the
\* unit, whose weight and tag stay what they were.
MakeNodeInfo(old, bytes, freq, tag) ==
  IF Decodes(bytes) THEN [word |-> Decode(bytes), freq |-> freq, tag |-> tag]
                    ELSE [old EXCEPT !.word = Decode(bytes)]

\* The ifstream does not open, in either file.
CannotOpen == stage \in {"dict", "user"} /\ lineno = 0 /\ Abort

LoadLine ==
  /\ stage = "dict" /\ lineno < Len(dictFile)
  /\ LET line == dictFile[lineno + 1] IN
       IF line.cols # 3 THEN Abort
       ELSE LET unit == MakeNodeInfo(info, line.word, line.freq, line.tag) IN
            /\ lineno' = lineno + 1
            /\ info' = unit
            /\ static' = Append(static, unit)
            /\ UNCHANGED <<dictFile, userFile, stage, active, weights, singles, trie>>

Freqs == [i \in DOMAIN static |-> static[i].freq]
Total ==
  LET Sum[i \in 0..Len(static)] == IF i = 0 THEN 0 ELSE Sum[i - 1] + Freqs[i]
  IN Sum[Len(static)]

\* x[k] of the sorted frequencies, from 0: the least that more than k of them
\* do not exceed.
AtRank(k) == Min({f \in ToSet(Freqs) : Cardinality({i \in DOMAIN Freqs : Freqs[i] <= f}) > k})

\* CalculateWeight and SetStaticWordWeights (the default is the median).
CalculateWeights ==
  /\ stage = "dict" /\ lineno = Len(dictFile)
  /\ IF static = <<>> \/ 0 \in ToSet(Freqs) THEN Abort
     ELSE /\ stage' = "user" /\ lineno' = 0
          /\ weights' = [total |-> Total, min |-> AtRank(0), user |-> AtRank(Len(static) \div 2)]
          /\ info' = [word |-> <<>>, freq |-> 0, tag |-> ""]
          /\ UNCHANGED <<dictFile, userFile, static, active, singles, trie>>

LoadUserLine ==
  /\ stage = "user" /\ lineno < Len(userFile)
  /\ lineno' = lineno + 1
  /\ LET line == userFile[lineno + 1] IN
       IF line.cols = 0 THEN UNCHANGED <<static, singles>>
       ELSE \E freq \in Garbage :
         LET fresh == [word |-> <<>>, freq |-> freq, tag |-> ""]
             unit == MakeNodeInfo(fresh, line.word, weights.user, IF line.cols = 2 THEN line.tag ELSE "")
         IN /\ static' = Append(static, unit)
            /\ singles' = IF Len(unit.word) = 1 THEN singles \cup ToSet(unit.word) ELSE singles
  /\ UNCHANGED <<dictFile, userFile, stage, info, active, weights, trie>>

UserLoaded ==
  /\ stage = "user" /\ lineno = Len(userFile)
  /\ stage' = "trie" /\ lineno' = 0
  /\ UNCHANGED <<dictFile, userFile, info, static, active, weights, singles, trie>>

NodesTo(word) == {SubSeq(word, 1, n) : n \in 1..Len(word)}

\* Mutant: the value of a node that has one is kept.
InsertNodeKeeping(word, p) ==
  [path \in DOMAIN trie \cup NodesTo(word) |->
     IF path \in DOMAIN trie /\ trie[path] # None THEN trie[path] ELSE IF path = word THEN p ELSE None]

\* Mutant: the nodes on the way are not made.
InsertNodeBare(word, p) ==
  [path \in DOMAIN trie \cup {word} |-> IF path = word THEN p ELSE trie[path]]

\* Mutant: an empty word gets a node.
InsertNodeEmpty(word, p) ==
  [path \in DOMAIN trie \cup NodesTo(word) \cup {word} |->
     IF path = word THEN p ELSE IF path \in DOMAIN trie THEN trie[path] ELSE None]

\* InsertNode makes the nodes on the way; an empty word has no node.
InsertNode(word, p) ==
  [path \in DOMAIN trie \cup NodesTo(word) |->
     IF path = word THEN p ELSE IF path \in DOMAIN trie THEN trie[path] ELSE None]

\* CreateTrie, one unit per step.
InsertStatic ==
  /\ stage = "trie" /\ lineno < Len(static)
  /\ lineno' = lineno + 1
  /\ trie' = InsertNode(static[lineno + 1].word, Static(lineno + 1))
  /\ UNCHANGED <<dictFile, userFile, stage, info, static, active, weights, singles>>

TrieCreated ==
  /\ stage = "trie" /\ lineno = Len(static)
  /\ stage' = "ready"
  /\ UNCHANGED <<dictFile, userFile, lineno, info, static, active, weights, singles, trie>>

\* Mutant: the pointer is taken before the unit is in the deque.
InsertUserWordEarly ==
  /\ stage = "ready" /\ Len(active) < MaxInserts
  /\ \E bytes \in UserWords :
       /\ Decodes(bytes)
       /\ active' = Append(active, [word |-> Decode(bytes), freq |-> weights.user, tag |-> ""])
       /\ trie' = InsertNode(Decode(bytes), IF active = <<>> THEN None ELSE Active(Len(active)))
  /\ UNCHANGED <<dictFile, userFile, stage, lineno, info, static, weights, singles>>

\* InsertUserWord returns false for a word that does not decode.
InsertUserWord ==
  /\ stage = "ready" /\ Len(active) < MaxInserts
  /\ \E bytes \in UserWords :
       /\ Decodes(bytes)
       /\ active' = Append(active, [word |-> Decode(bytes), freq |-> weights.user, tag |-> ""])
       /\ trie' = InsertNode(Decode(bytes), Active(Len(active) + 1))
  /\ UNCHANGED <<dictFile, userFile, stage, lineno, info, static, weights, singles>>

Load == LoadLine \/ CalculateWeights \/ LoadUserLine \/ UserLoaded \/ InsertStatic \/ TrieCreated

\* Trie::Find of one word.
Find(word) == IF word \in DOMAIN trie THEN trie[word] ELSE None

---------------------------------------------------------------------------

Pointers == {None} \cup {Static(i) : i \in DOMAIN static} \cup {Active(i) : i \in DOMAIN active}

DictTypeOK ==
  /\ stage \in {"dict", "user", "trie", "ready", "aborted"}
  /\ \A unit \in ToSet(static \o active) : unit.freq \in Nat
  /\ \A path \in DOMAIN trie : path # <<>> /\ trie[path] \in Pointers

\* Every pointer in the trie leads to a unit of the very word that its node
\* spells, through all growth of the two containers (DictTrie.hpp:41-49, 83-93):
\* the cuts advance by the length of the unit's word, not by the node's depth.
PointersValid ==
  \A path \in DOMAIN trie : trie[path] # None => trie[path] \in Pointers /\ Unit(trie[path]).word = path

\* Of a word in several lines, or added again, the latest counts: the user's
\* tag and weight replace the dictionary's (Trie.hpp:142).
LatestWins ==
  stage = "ready" =>
    LET all == [i \in DOMAIN static |-> Static(i)] \o [i \in DOMAIN active |-> Active(i)]
        Latest(word) == Max({i \in DOMAIN all : Unit(all[i]).word = word})
    IN \A i \in DOMAIN all : LET word == Unit(all[i]).word IN word # <<>> => Find(word) = all[Latest(word)]
=============================================================================
