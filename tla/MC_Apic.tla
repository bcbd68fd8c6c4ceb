------------------------------ MODULE MC_Apic ------------------------------
(***************************************************************************)
(* A MADT with two IO APICs (id 0 with three pins from GSI 0, id 1 with    *)
(* two pins from GSI 3), an override of IRQ 0 to GSI 2 and an NMI source   *)
(* on GSI 4 (pin 1 of the second APIC); one LVT register.  IRQ 0 is       *)
(* overridden and IRQ 4 is the NMI.                                        *)
(***************************************************************************)
EXTENDS Apic

MCMadt ==
    << [type |-> "IoApic", id |-> 0, gsiBase |-> 0],
       [type |-> "Iso", source |-> 0, mapped |-> 2, flags |-> 15],
       [type |-> "Nmi", gsi |-> 4, flags |-> 5],
       [type |-> "LocalApic"],
       [type |-> "IoApic", id |-> 1, gsiBase |-> 3] >>

\* Version registers: maximum redirection entry 2 and 1, version 0x11.
MCVersionReg == [id \in {0, 1} |-> IF id = 0 THEN 2 * 2^16 + 17 ELSE 2^16 + 17]

=============================================================================
