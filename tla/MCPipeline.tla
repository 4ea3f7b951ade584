----------------------------- MODULE MCPipeline -----------------------------
(***************************************************************************)
(* Small formulas for Pipeline.                                            *)
(***************************************************************************)
EXTENDS Pipeline

Header == Line("header", <<NumVars, 2>>)
Comment == Line("comment", <<>>)

\* A chain, one with a unit clause and a zero on a line of its own.
SmallFiles ==
  {<<Header, Line("clause", <<1, 2, 0>>), Line("clause", <<-2, 3, 0>>)>>,
   <<Comment, Header, Line("clause", <<1, 2>>), Line("clause", <<0>>),
     Line("clause", <<-3, 0>>), Line("clause", <<2, 3, 0>>)>>}

AllScripts == {"plain", "docker", "gen"}

=============================================================================
