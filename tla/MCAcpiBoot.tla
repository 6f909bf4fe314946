----------------------------- MODULE MCAcpiBoot -----------------------------
(***************************************************************************)
(* AcpiBoot with two paragraphs to a window, room for two tables and two   *)
(* processors, and MADTs of up to three entries, some of them malformed.   *)
(***************************************************************************)
EXTENDS AcpiBoot

Paragraph(sig, sum, xsum, rev) ==
  [sig |-> sig, sum |-> sum, xsum |-> xsum, revision |-> rev, xsdt |-> rev = 2]

MCParagraphs ==
  {Paragraph(TRUE, FALSE, TRUE, 1), Paragraph(TRUE, TRUE, FALSE, 2),
   Paragraph(TRUE, TRUE, FALSE, 1), Paragraph(TRUE, TRUE, TRUE, 2)}

MCListed ==
  {[sig |-> "NULL", sum |-> FALSE], [sig |-> "APIC", sum |-> TRUE],
   [sig |-> "APIC", sum |-> FALSE], [sig |-> "FACS", sum |-> FALSE]}

Entry(type, id, enabled, length) ==
  [type |-> type, id |-> id, enabled |-> enabled, length |-> length]

MCMadtEntries ==
  {Entry("lapic", 0, TRUE, 2), Entry("lapic", 1, TRUE, 2), Entry("lapic", 2, FALSE, 2),
   Entry("x2apic", 1, TRUE, 3), Entry("x2apic", 2, TRUE, 3), Entry("lapic", 1, TRUE, 1),
   Entry("other", 0, TRUE, 1), Entry("other", 0, TRUE, 0)}

\* Sources the firmware left: LVTERR arbitrary, the others alike.
MCLeftovers ==
  {[r \in LvtRegs |-> IF r = "LVTERR" THEN a ELSE b] : a \in Lvt, b \in Lvt}
=============================================================================
