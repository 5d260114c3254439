----------------------------- MODULE MCSession -----------------------------
(***************************************************************************)
(* Instances of Session for TLC: the two users of the default /etc/passwd, *)
(* with names and passwords of one key each, in buffers that hold two.     *)
(***************************************************************************)
EXTENDS Session, TLC

MCKeys == {"r", "a"}
Root   == <<"r">>
Anil   == <<"a">>

MCUsers == (Root :> [pw |-> <<"a">>, uid |-> 0, gecos |-> <<"r">>, home |-> "/root"]) @@
           (Anil :> [pw |-> <<"r">>, uid |-> 1000, gecos |-> <<"a">>, home |-> "/home/anil"])

MCHomes == {"/root", "/home/anil", "", "?"}
MCDirs  == {"/home/anil"}

=============================================================================
