------------------------- MODULE InterfaceDiscovery -------------------------
(***************************************************************************)
(* get_hw_addrs_aa19.c and fill_if_info_list: at its start a daemon asks   *)
(* the kernel for the list of addresses until two answers have the same    *)
(* length, then for the hardware address and the index of each, and puts   *)
(* the interfaces it will use on a list.  The interfaces of the machine    *)
(* can change between any two of these calls.                              *)
(***************************************************************************)
EXTENDS LinkedList

CONSTANTS
    Nics,        \* the interfaces a machine can have
    Kernels,     \* the addresses a machine can have, each as its interface
    Skipped,     \* lo and eth0
    Wrong,       \* a field that holds what was in the union before
    FirstCap,    \* the addresses the first buffer has room for: 100
    CapStep,     \* by how many it grows: 10
    Refuses,     \* whether SIOCGIFCONF refuses a buffer that is too small:
                 \* some kernels do, others fill it with what fits
    MaxChanges   \* bound: changes of the machine's interfaces

ASSUME DiscoveryAssumption ==
    /\ Kernels \subseteq Seq(Nics)
    /\ Skipped \subseteq Nics /\ Wrong \notin Nics
    /\ FirstCap \in Nat \ {0} /\ CapStep \in Nat \ {0}
    /\ Refuses \subseteq BOOLEAN
    /\ MaxChanges \in Nat

VARIABLES
    kernel,   \* the interface of each address of the machine, in order
    changes,  \* how often that has changed
    gone,     \* history: the interfaces that were taken away
    boot,     \* where the daemon is: conf, hwaddr, index, fill, ready, exit
    cap,      \* the addresses the buffer has room for
    lastlen,  \* the length of the answer before
    conf,     \* the answer that was taken
    whole,    \* history: all there was to answer
    haddr,    \* the hardware address that was read last
    hwa,      \* the list get_hw_addrs returns
    filled    \* how many elements of it fill_if_info_list has seen

kernelVars == << kernel, changes, gone >>
confVars == << cap, lastlen, conf, whole >>
bootVars == << boot, confVars, haddr, hwa, filled >>

Has(nic) == \E i \in DOMAIN kernel : kernel[i] = nic

DiscoveryInit ==
    /\ kernel \in Kernels
    /\ changes = 0 /\ gone = {}
    /\ boot = "conf"
    /\ cap = FirstCap /\ lastlen = 0
    /\ conf = << >> /\ whole = << >>
    /\ haddr = Wrong /\ hwa = << >> /\ filled = 0

-----------------------------------------------------------------------------
(* ioctl(SIOCGIFCONF), in a loop.                                          *)

Fits == Len(kernel) <= cap

(* An answer that is too long is cut to the size of the buffer.            *)
Answer == IF Fits THEN kernel ELSE SubSeq(kernel, 1, cap)

Grow == cap' = cap + CapStep

GetConfRefused ==
    /\ boot = "conf"
    /\ ~ Fits /\ TRUE \in Refuses
    /\ boot' = IF lastlen # 0 THEN "exit" ELSE "conf"
    /\ Grow
    /\ UNCHANGED << kernelVars, lastlen, conf, whole, haddr, hwa, filled, heapVars >>

(* Mutant: the first answer will do.                                       *)
SameLength_First == TRUE

SameLength == Len(Answer) = lastlen

GetConfAgain ==
    /\ boot = "conf"
    /\ Fits \/ FALSE \in Refuses
    /\ ~ SameLength
    /\ lastlen' = Len(Answer)
    /\ Grow
    /\ UNCHANGED << kernelVars, boot, conf, whole, haddr, hwa, filled, heapVars >>

(* No address at all: get_hw_addrs returns NULL and Get_hw_addrs quits.    *)
GetConfDone ==
    /\ boot = "conf"
    /\ Fits \/ FALSE \in Refuses
    /\ SameLength
    /\ conf' = Answer
    /\ whole' = kernel
    /\ boot' = IF Answer = << >> THEN "exit" ELSE "hwaddr"
    /\ UNCHANGED << kernelVars, cap, lastlen, haddr, hwa, filled, heapVars >>

-----------------------------------------------------------------------------
(* For each address, SIOCGIFHWADDR and SIOCGIFINDEX by the interface's     *)
(* name, which has lost what follows a colon.  An error is printed, and    *)
(* what the structure held is taken for the answer.                        *)

Item == Len(hwa) + 1

AskKernel(nic) == IF Has(nic) THEN nic ELSE Wrong

GetHwAddr ==
    /\ boot = "hwaddr"
    /\ haddr' = AskKernel(conf[Item])
    /\ boot' = "index"
    /\ UNCHANGED << kernelVars, confVars, hwa, filled, heapVars >>

(* strncmp with lastname.                                                  *)
SameName == Item > 1 /\ conf[Item - 1] = conf[Item]

GetIndex ==
    /\ boot = "index"
    /\ hwa' = Append(hwa, [nic |-> conf[Item], ip_alias |-> SameName,
                           if_haddr |-> haddr, if_index |-> AskKernel(conf[Item])])
    /\ boot' = IF Item = Len(conf) THEN "fill" ELSE "hwaddr"
    /\ UNCHANGED << kernelVars, confVars, haddr, filled, heapVars >>

-----------------------------------------------------------------------------
(* fill_if_info_list: one element of the list.                             *)

(* Mutant: an interface is listed once, whatever its number of addresses.  *)
Used_Once(h) == h.nic \notin Skipped /\ ~ h.ip_alias

Used(h) == h.nic \notin Skipped

(* Mutant: the loop goes on only after an interface it has listed.         *)
Advance_Used(h) == filled' = IF Used(h) THEN filled + 1 ELSE filled

Advance(h) == filled' = filled + 1

FillOne ==
    LET h == hwa[filled + 1]
    IN  /\ boot = "fill"
        /\ IF Used(h)
           THEN /\ brk <= MaxCells + 1
                /\ links' = list_add(links, brk, IF_INFO)
                /\ mem' = [mem EXCEPT ![brk] =
                             [sll_addr |-> h.if_haddr, sll_ifindex |-> h.if_index]]
                /\ brk' = brk + 1
           ELSE UNCHANGED heapVars
        /\ Advance(h)
        /\ boot' = IF filled' = Len(hwa) THEN "ready" ELSE "fill"
        /\ UNCHANGED << kernelVars, confVars, haddr, hwa >>

Discover ==
    \/ GetConfRefused \/ GetConfAgain \/ GetConfDone
    \/ GetHwAddr \/ GetIndex \/ FillOne

-----------------------------------------------------------------------------
(* The machine.  An interface that is taken away does not come back: what  *)
(* is plugged in again has a new index.                                    *)
Change ==
    /\ changes < MaxChanges
    /\ changes' = changes + 1
    /\ kernel' \in Kernels
    /\ \A nic \in gone : ~ Has(nic)'
    /\ gone' = gone \cup {nic \in Nics : Has(nic) /\ ~ Has(nic)'}
    /\ UNCHANGED << bootVars, heapVars >>

=============================================================================
