------------------------------ MODULE MCTools ------------------------------
(***************************************************************************)
(* An instance of Tools for TLC.                                            *)
(***************************************************************************)
EXTENDS Tools, TLC

(* Two groups that share a file.                                             *)
MCFilesOf == ("visual" :> {1, 2}) @@ ("ocr" :> {2, 3})

(* A folder, by two of its names, one in it, and one in that.                *)
MCUnder == ("d/" :> {"a"}) @@ ("d" :> {"a"}) @@ ("a" :> {"b"}) @@ ("b" :> {})
MCReal == ("d/" :> "d") @@ ("d" :> "d") @@ ("a" :> "a") @@ ("b" :> "b")

(* Settings with and without a root.                                         *)
MCSaved == {[query |-> "a", mode |-> "content", include |-> {"*.go", "l"}],
            [query |-> "", mode |-> "files", include |-> {}]}

MCBound == ("finder" :> 14) @@ ("search" :> 10) @@ ("texts" :> 16) @@ ("prompts" :> 9)
=============================================================================
