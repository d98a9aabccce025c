----------------------------- MODULE MCModelLoad -----------------------------
(* ModelLoad with a model, its lights and its mass. *)
EXTENDS ModelLoad
FullIni   == IniOf(Sections, 1, {"lights"})
InisDef   == {FullIni}
FoundDef  == {Kinds, {"txd"}}
FaultsDef == {{"col"}}
=============================================================================
