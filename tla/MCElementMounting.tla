-------------------------- MODULE MCElementMounting --------------------------
(* Two pages: home has an island, which matches two elements and may fail  *)
(* to initialise, and a second one that shows one of them in another way;  *)
(* form has a menu that appends its popup to the body, and that registers  *)
(* in the middle of a swap; both have tooltips.                            *)
EXTENDS ElementMounting

MCContent == [home |-> {"tip", "box"}, form |-> {"tip"}]
MCPages == DOMAIN MCContent
MCNames == {"tooltip", "menu", "island", "panel"}
MCMatches == [tooltip |-> {"tip"}, menu |-> {"tip"},
              island |-> {"tip", "box"}, panel |-> {"box"}]
MCInline == [home |-> {}, form |-> {"menu"}]
MCDeferred == [home |-> {"island", "panel"}, form |-> {}]
MCVariant == [island |-> "shadow", panel |-> "light"]
=============================================================================
