---------------------------- MODULE MCConfigFile ----------------------------
(***************************************************************************)
(* Two overlapping starts of the GUI's proxy, a stop, and two saves, one by  *)
(* the command line and one by the GUI.                                     *)
(***************************************************************************)
EXTENDS ConfigFile

CONSTANTS s1, s2, cli, gui

Two == {s1, s2}
MCSavers == {cli, gui}
MCKind == [w \in MCSavers |-> IF w = cli THEN "cli" ELSE "gui"]

MCDomains == {"youtube.com", "m.youtube.com", "a.b_c", "a_b.c", "other.org"}
MCUnder ==
  [d \in MCDomains |-> IF d = "youtube.com" THEN {d, "m.youtube.com"} ELSE {d}]
MCNameOf ==
  [d \in MCDomains |->
     CASE d = "youtube.com" -> "youtube_com"
       [] d = "m.youtube.com" -> "m_youtube_com"
       [] d = "other.org" -> "other_org"
       [] OTHER -> "a_b_c"]

(* The command line sorts its domains, the GUI takes them as they come. *)
MCFound ==
  [w \in MCSavers |->
     IF w = cli THEN {<<"a_b.c", "m.youtube.com", "youtube.com">>}
     ELSE {<<"youtube.com", "m.youtube.com">>}]

MCEdited == <<"other.org">>

(* The longest text is the user's, so that a rest of it would be seen. *)
MCSize == [w \in Writers |-> IF w = User THEN 4 ELSE 1]
=============================================================================
