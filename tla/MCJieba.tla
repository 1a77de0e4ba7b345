------------------------------ MODULE MCJieba ------------------------------
(* Instances of Jieba for TLC. *)
EXTENDS Jieba

\* Two Chinese characters, a symbol, ASCII.
MCZhong == 20013
MCGuo == 22269
MCComma == 65292
MCa == 97
MCOne == 49

MCLine(word, freq, tag) == [word |-> Encode(word), freq |-> freq, tag |-> tag, cols |-> 3]
MCUserLine(word, cols) == [word |-> Encode(word), tag |-> "u", cols |-> cols]

Z == MCZhong
G == MCGuo

\* Words that nest, a word across a symbol, a duplicate, a word that does not decode, a line that lacks
\* its tag, an empty file, a frequency of 0.
MCDicts ==
  {<<MCLine(<<Z, G>>, 3, "n"), MCLine(<<Z>>, 2, "f"), MCLine(<<G>>, 1, "q"), MCLine(<<Z, G, Z>>, 2, "n"),
     MCLine(<<MCa>>, 1, ""), MCLine(<<MCComma>>, 1, ""), MCLine(<<G, MCComma>>, 9, "n")>>,
   <<MCLine(<<G, Z, Z, G>>, 5, "n"), MCLine(<<Z, Z>>, 1, "f"), MCLine(<<Z, Z>>, 4, "v")>>,
   <<[MCLine(<<Z, G>>, 2, "n") EXCEPT !.word = @ \o <<240, 159>>], MCLine(<<G>>, 1, "q")>>,
   <<[MCLine(<<Z>>, 1, "n") EXCEPT !.cols = 2]>>, <<>>, <<MCLine(<<Z>>, 0, "n")>>}

MCUsers == {<<>>, <<MCUserLine(<<G, Z>>, 2), [MCUserLine(<<>>, 1) EXCEPT !.cols = 0], MCUserLine(<<>>, 1), MCUserLine(<<G>>, 1)>>}
MCUserWords == {Encode(<<Z, G>>), Encode(<<G, G, MCa>>), <<228, 184>>}

MCSkip == [skipped |-> TRUE, nums |-> <<>>, probs |-> <<>>]
MCNums(ns) == [skipped |-> FALSE, nums |-> ns, probs |-> <<>>]
MCProbs(ps) == [skipped |-> FALSE, nums |-> <<>>, probs |-> ps]
MCProb(r, p) == [word |-> Encode(<<r>>), p |-> p, cols |-> 2]
MCModel ==
  <<MCSkip, MCNums(<<-1, MinDouble, MinDouble, -2>>),
    MCNums(<<MinDouble, -1, -3, MinDouble>>), MCNums(<<-2, MinDouble, MinDouble, -1>>), MCSkip,
    MCNums(<<MinDouble, -1, -2, MinDouble>>), MCNums(<<-1, MinDouble, MinDouble, -3>>),
    MCProbs(<<MCProb(Z, -1), MCProb(G, -4)>>), MCProbs(<<MCProb(G, -1), MCProb(Z, -3)>>),
    MCProbs(<<MCProb(Z, -2)>>), MCProbs(<<MCProb(Z, -2), MCProb(G, -2), MCProb(G, -3)>>)>>
MCModels == {MCModel, SubSeq(MCModel, 1, 10)}

MCTexts ==
  SeqOf({Z, G, MCComma, MCa}, 3) \cup SeqOf({Z, G}, 4)
    \cup {<<MCOne, 46, MCOne, Z>>, <<MCOne, 46, MCOne, MCOne>>, <<MCOne, MCOne, 46, MCOne>>, <<MCa, MCOne, MCComma, MCOne, MCOne>>, <<Z, G, Z, G, Z>>,
          <<Z, MCComma, G, Z, MCComma, MCComma>>}
MCSentences ==
  {Encode(text1) : text1 \in MCTexts}
    \cup {Encode(<<Z, G>>) \o <<240, 159, 152, 128>> \o Encode(<<Z>>), SubSeq(Encode(<<Z, G>>), 1, 5), <<MCa, 195>>,
          <<195, 169, 195, 169>> \o Encode(<<Z>>), <<193, 161>>}

MCCall(mode, hmm, max) == [mode |-> mode, hmm |-> hmm, max |-> max]
MCCalls ==
  {MCCall("all", FALSE, 0), MCCall("mp", FALSE, 2), MCCall("mp", FALSE, 512), MCCall("hmm", TRUE, 0),
   MCCall("cut", TRUE, 0), MCCall("query", TRUE, 2), MCCall("query", FALSE, 3), MCCall("level", FALSE, 0),
   MCCall("tag", TRUE, 0)}
=============================================================================
