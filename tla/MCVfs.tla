------------------------------- MODULE MCVfs -------------------------------
(***************************************************************************)
(* Instances of Vfs for TLC.                                               *)
(***************************************************************************)
EXTENDS Vfs, TLC

\* A path of the disk, one of the layout, and a file of the image with its view.
FourPaths == {<<"persist", "f">>, <<"etc">>, <<"t">>, <<"removable", "t">>}
WithRoot == {<<>>, <<"etc">>, <<"etc", "d">>}

\* Not mounted, as in this commit, or with one file.
ToyOrNone == {<<>>, <<<<"t">>>>}
NoToy     == {<<>>}

\* A machine with a disk and a CD drive, and one whose disk does not answer.
WithDisk == [p \in ToSet(Ports) |-> CASE p = "1F0 A0" -> "ata" [] p = "170 A0" -> "atapi"
                                      [] OTHER -> "none"]
DiskOrNone == {WithDisk, [WithDisk EXCEPT !["1F0 A0"] = "none"]}
OneMachine == {WithDisk}
EtcLayout == <<<<"etc">>>>

One == {0}
Two == {0, 1}

\* What is kept of user 1000 is the number of another.
RootAndUsers == {0, 232, 1000}
RootUser    == {0}

OneLetter     == {"a"}
\* Longer than what append keeps, so that no text written is that of the image.
ToyContent    == <<"a", "a">>
PasswdContent == <<"a">>

=============================================================================
