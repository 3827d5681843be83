------------------------------- MODULE MCFiles -------------------------------
(***************************************************************************)
(* TLC instance of Files.                                                  *)
(***************************************************************************)
EXTENDS Files

Text(of, n) == [i \in 1 .. n |-> [name |-> <<of>>, inode_id |-> i]]
File(name, n) == [name |-> name, node |-> [type |-> "reg", data |-> Text(Head(name), n)]]
Dir(name, entries) == [name |-> name, node |-> [type |-> "dir", entries |-> entries]]
Root(entries) == Dir(<<>>, entries).node

Bin(n) == Dir(<<"bin">>, <<File(<<"init">>, 1), File(<<"sh">>, n)>>)
Letters == <<"o", "p", "q", "r", "t", "u", "v", "w", "x", "y", "z", "g", "h", "l">>
Many(make(_, _), n) == [i \in 1 .. n |-> make(<<Letters[i]>>, 0)]
EmptyDir(name, n) == Dir(name, <<>>)

\* The program sh takes 0, 2, 3 or 9 blocks, of which an inode names 2; the root directory
\* has entries for 1 or 3.
Usual(n, k) == Root(<<File(<<"d", "ata">>, 3), Bin(n)>> \o Many(File, k))
Main == Usual(2, 0)

MCTrees ==
    {Usual(n, k) : n \in {0, 3, 4, 5, 17}, k \in {0, 3}}
    \cup {Main,
          Root(<<>>),                                       \* no /bin/init
          Root(Many(File, 4) \o <<Bin(1)>>),                \* /bin in another inode
          Root(<<EmptyDir(<<"m">>, 0), Bin(1)>>),           \* an empty directory
          Root(<<Dir(<<"m">>, <<Bin(3)>>), Bin(2)>>),       \* a deeper one
          Root(<<Bin(0)>> \o Many(EmptyDir, 11)),           \* inodes for one more
          Root(<<Bin(0)>> \o Many(EmptyDir, 12)),           \* too many inodes
          Root(<<Bin(12)>> \o Many(File, 14)),              \* inodes behind the table
          Root(<<Bin(40)>>)}                                \* blocks behind the end

MCPaths == {<<"/">>, INIT, <<"/", "bin", "/", "sh">>, <<"/", "q">>,
            <<"/", "d", "ata">>, <<"/", "m", "/", "bin">>, <<"/", "/">>,
            DEV \o <<"console">>, DEV \o <<"keyboard">>, DEV}
MCTexts == {<<"a", "newline", "b">>, <<"backspace", "a", "backspace", "tab">>}

\* Bounds: nothing is claimed once the kernel is wild; memory for the devices is missing,
\* and the console is written to, with the main directory only.
Bound == /\ ~wild
         /\ root # Main => /\ stage \in {"booted", "running"} => Len(devices) = 2
                          /\ \A p \in Writers : put[p] = Idle

\* The image follows from the directory, and no action depends on the last call or on
\* what overlapping writers leave on the screen, of which nothing is claimed.
View == <<root, stage, vfs_list, devices, alive, next_pid, fds, vnodes, calls, wild,
          cursor_pos, put, overlapped, paper, IF overlapped THEN <<>> ELSE screen>>
=============================================================================
