----------------------------- MODULE MCUpdates ------------------------------
(* Three releases and a site that has edited and added files of its own. *)
EXTENDS Updates
P1 == [bin |-> "bin1", page |-> "page1", old |-> "old1"]
P2 == [bin |-> "bin2", page |-> "page1", style |-> "style2"]
P3 == [bin |-> "bin3", page |-> "page3", style |-> "style3"]
ThreeVersions == <<P1, P2, P3>>
Own == [font |-> "font"]
SiteManifest == P1 @@ Own
SiteTrees == {SiteManifest, SiteManifest @@ [style |-> "mystyle"], [SiteManifest EXCEPT !.page = "mypage"] }
=============================================================================
