----------------------------- MODULE MC_Initdisk -----------------------------
EXTENDS Initdisk

\* "northport-initdisk" abstracted to three characters.
MCInitdiskName == <<"n", "p", "i">>

\* Tar headers: a directory entry, a file two directories deep, a file at
\* the top, the two zero blocks and data after them.
MCArchive ==
    << [kind |-> "Directory", path |-> <<"a">>],
       [kind |-> "File", path |-> <<"a", "b", "f">>],
       [kind |-> "File", path |-> <<"g">>],
       [kind |-> "Zero", path |-> << >>],
       [kind |-> "Zero", path |-> << >>],
       [kind |-> "File", path |-> <<"h">>] >>

\* A module with another name, then the initdisk.
MCBootModules ==
    << [cmdline |-> <<"k">>, archive |-> << >>],
       [cmdline |-> MCInitdiskName, archive |-> MCArchive] >>
=============================================================================
