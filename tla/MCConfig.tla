------------------------------ MODULE MCConfig ------------------------------
(***************************************************************************)
(* Config with the lines of some scenario files, right and wrong.          *)
(***************************************************************************)
EXTENDS Config

CONSTANT aFile

MCFileNames == {aFile}

Command(i, a) == [id |-> i, args |-> a]

\* Lines as in the examples, a Link and a FIFONode that lack arguments, a Link
\* and a Host with one too many, a command that does not exist, and a flow whose
\* last argument is a number (as in the examples chain and complicated).
MCLines ==
    { Command("Link", <<1, 2, 10, 1>>), Command("Link", <<2, 1, 1, 2, 3>>), Command("Link", <<9>>),
      Command("FIFONode", <<2, 10>>), Command("FIFONode", <<>>),
      Command("Router", <<9, 10>>),
      Command("Host", <<1>>), Command("Host", <<2>>), Command("Host", <<1, 2>>),
      Command("FDTPFlow", <<1, 2, 5, aFile>>), Command("FDTPFlow", <<2, 1, 5, 7>>),
      Command("CBRFlow", <<2, 1, 100>>) }

\* Two states of the memory, one in which slots look like addresses and
\* arguments of the file.
MCMemories == {<<0, 0, 0, 0>>, <<2, -1, 5, 1>>}
=============================================================================
