---------------------------- MODULE MCChatServer ----------------------------
(* Values of the constants of ChatServer for model checking. *)
EXTENDS ChatServerHistory

MCWords == {"hi", "bob"}
MCSlashWords == {"/name", "/x"}

Text == <<"hi", "\n">>
NameBob == <<"/name", " ", "bob", "\n">>
BadCommand == <<"/x", "\n">>

TextOnly == {Text}
TextOrCommand == {Text, BadCommand}
AllLines == {Text, NameBob, BadCommand}
NoResidue == {<<>>}

SomeResidue == {<<>>, <<"hi">>}

ConnSymmetry == Permutations(Conns)
=============================================================================
