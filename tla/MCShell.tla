------------------------------- MODULE MCShell -------------------------------
(* Instances of Shell for TLC: a small table, and the one of kernel_main.   *)
EXTENDS Shell

Dir(name, under)  == [name |-> name, under |-> under, type |-> FILE_DIR]
Reg(name, under)  == [name |-> name, under |-> under, type |-> FILE_REGULAR]

SmallCalls == << Dir("root", "") >>

SmallTable == << [name |-> "root", parent_inode |-> 1, type |-> FILE_DIR] >>

KernelCalls ==
  << Dir("root", ""), Dir("bin", ""), Dir("etc", ""), Dir("home", ""),
     Dir("dev", ""), Dir("tmp", ""), Dir("sys", ""), Reg("fetch", ""),
     Reg("sda", "dev"), Reg("sda1", "dev"), Reg("sdb1", "dev"),
     Reg("sdb", "dev"), Reg("vga", "dev"), Reg("vga1", "dev"),
     Reg("vga2", "dev"), Reg("null", "dev"), Reg("random", "dev"),
     Reg("ush", "bin"), Reg("ls", "bin"), Reg("cat", "bin"),
     Reg("echo", "bin"), Reg("fetch", "bin") >>

KernelNames == {KernelCalls[i].name : i \in 1..Len(KernelCalls)}

\* The entries in the order of their inodes: all the calls but the last.
KernelTable ==
  [i \in 1..(Len(KernelCalls) - 1) |->
     [name |-> KernelCalls[i].name,
      parent_inode |-> CASE KernelCalls[i].under = ""    -> 1
                         [] KernelCalls[i].under = "bin" -> 2
                         [] KernelCalls[i].under = "dev" -> 5,
      type |-> KernelCalls[i].type]]

\* Up to a buffer of 4096 bytes and a text of 9.
KernelSizes == 0..4105
=============================================================================
