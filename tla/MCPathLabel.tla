---------------------------- MODULE MCPathLabel ----------------------------
(* Two registered routes, character by character of its class:              *)
(* /api/image/remove-bg, and /share/ followed by a UUID.                    *)
EXTENDS PathLabel

RemoveBg == <<"o", "h", "o", "o", "o", "o", "o", "h", "o", "h",
              "o", "o", "h", "o", "o", "o", "h", "-", "h", "o">>
Share == <<"o", "o", "o", "h", "o", "h", "o">> \o
         [k \in 1 .. 36 |-> IF k \in {9, 14, 19, 24} THEN "-" ELSE "h"]
RoutesOf == {RemoveBg, Share}
=============================================================================
