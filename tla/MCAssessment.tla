---------------------------- MODULE MCAssessment ----------------------------
EXTENDS Assessment

MCWirings == {{"sonarqube", "sourcecraft"}, {}}
(* Two components of Issues, of which one needs the comments. *)
MCHistories == {{"answered", "aged"}}
(* Good categories and bad ones. *)
MCScores ==
  {[c \in Categories |-> IF c \in {"documentation", "cicd"} THEN 0 ELSE 100]}
=============================================================================
