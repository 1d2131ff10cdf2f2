----------------------------- MODULE MCSession -----------------------------
(***************************************************************************)
(* A program of one expression and one of two, over two rows, and a        *)
(* commitment on which all of their cells are zero, one or several are     *)
(* not.  The first page of memory ends inside the longer file.             *)
(***************************************************************************)
EXTENDS Session, TLC

MCCount == "short" :> 1 @@ "long" :> 2

MCTruth ==
  "short" :> ("valid" :> <<0, 0>> @@ "invalid" :> <<0, 1>> @@ "wrong" :> <<1, 1>>) @@
  "long" :> ("valid" :> <<0, 0, 0, 0>> @@ "invalid" :> <<0, 1, 0, 0>> @@ "wrong" :> <<0, 0, 1, 0>>)
=============================================================================
