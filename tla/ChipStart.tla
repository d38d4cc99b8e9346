------------------------------ MODULE ChipStart ------------------------------
(***************************************************************************)
(* The start of the WINC1500, m2m_wifi_init(): the chip is reset, the      *)
(* driver finds out how to talk to it (nmspi.c), waits for its boot ROM    *)
(* and its firmware (nmasic.c, nmdrv.c), and opens the interface for       *)
(* events (m2m_hif.c).  It may fail, and be tried again from whatever      *)
(* state it has left the driver and the chip in.                           *)
(*                                                                         *)
(* A register access is one step.  Ten tries to read a register may fail   *)
(* (MaxFailures bounds how often they do, while both sides agree on the    *)
(* use of checksums), and a write may get lost.                            *)
(***************************************************************************)
EXTENDS Naturals

CONSTANT MaxFailures    \* bound: accesses that fail although the chip could understand

ASSUME FailuresAssumption == MaxFailures \in Nat

VARIABLES
  step,          \* where m2m_wifi_init() is, or "returned"
  gu8Crc_off,    \* whether the driver sends no checksums
  chipid,        \* whether nmi_get_chipid() has read it, in this or an earlier start
  gpfIsr,        \* whether the interrupt routine is attached
  boot,          \* the chip: "reset", "efuse", "rom", "started" or "up"
  noChecksum,    \* the chip: whether it expects no checksums
  failures

driver == <<step, gu8Crc_off, chipid, gpfIsr>>
chipState == <<boot, noChecksum>>
chipStartVars == <<driver, chipState, failures>>

ChipStartInit ==
  /\ step = "returned" /\ gu8Crc_off = FALSE /\ chipid = FALSE /\ gpfIsr = FALSE
  /\ boot = "reset" /\ noChecksum = FALSE
  /\ failures = 0

-----------------------------------------------------------------------------
(***************************************************************************)
(* nmspi.c.  The chip does not understand a driver that differs from it in *)
(* the use of checksums.                                                   *)
(***************************************************************************)

Understands == gu8Crc_off = noChecksum

\* spi_read_reg(), with all its tries, has read the register or has failed.
spi_read_reg(ok) ==
  IF Understands /\ ~ok
  THEN failures < MaxFailures /\ failures' = failures + 1
  ELSE (ok => Understands) /\ UNCHANGED failures

\* spi_write_reg() reports success whether the chip has taken the value or not:
\* spi_cmd_rsp() gives up waiting for a response without an error.
spi_write_reg(taken) == spi_read_reg(taken)

\* nm_read_reg() returns what the register holds or, after a failure, whatever
\* was on the stack.  P is what the caller has to find in order to go on.
nm_read_reg(P) == \E ok \in BOOLEAN : spi_read_reg(ok) /\ (ok => P)

-----------------------------------------------------------------------------
(***************************************************************************)
(* m2m_wifi_init() and nm_drv_init().                                      *)
(***************************************************************************)

At(s) == step = s
Continues(s) == step' = s
Fails == step' = "failed"

\* nm_bsp_init() and nm_bus_init(): both reset the chip by its pin.
nm_bsp_init ==
  /\ At("bsp") /\ Continues("chipid")
  /\ gpfIsr' = FALSE
  /\ boot' = "reset" /\ noChecksum' = FALSE
  /\ UNCHANGED <<gu8Crc_off, chipid, failures>>

\* nmi_get_chipid() reads the chip's id once and remembers it.  The mutant reads it
\* in each start.
nmi_get_chipid_Always ==
  \E ok \in BOOLEAN : spi_read_reg(ok) /\ chipid' = FALSE /\ step' = IF ok THEN "spi" ELSE "failed"
nmi_get_chipid ==
  IF chipid THEN Continues("spi") /\ UNCHANGED <<chipid, failures>>
  ELSE \E ok \in BOOLEAN :
         spi_read_reg(ok) /\ chipid' = ok /\ step' = IF ok THEN "spi" ELSE "failed"

knownChip ==
  /\ At("chipid") /\ nmi_get_chipid
  /\ UNCHANGED <<gu8Crc_off, gpfIsr, chipState>>

\* nm_spi_init() starts from checksums.
nm_spi_init ==
  /\ At("spi") /\ Continues("crcOn")
  /\ gu8Crc_off' = FALSE
  /\ UNCHANGED <<chipid, gpfIsr, chipState, failures>>

\* It reads with checksums and, if that fails, takes the chip for one that expects
\* none.  What comes of that is not looked at: the failure is reported by the value
\* of a success, which nm_drv_init() does not look at either.
readWithCrc ==
  /\ At("crcOn")
  /\ \E ok \in BOOLEAN :
       /\ spi_read_reg(ok)
       /\ gu8Crc_off' = ~ok
       /\ step' = IF ok THEN "crcWrite" ELSE "efuse"
  /\ UNCHANGED <<chipid, gpfIsr, chipState>>

\* Checksums are turned off, first in the chip.
turnCrcOff ==
  /\ At("crcWrite") /\ Continues("efuse")
  /\ \E taken \in BOOLEAN : spi_write_reg(taken) /\ noChecksum' = taken
  /\ gu8Crc_off' = TRUE
  /\ UNCHANGED <<chipid, gpfIsr, boot>>

\* wait_for_bootrom() waits for the eFuses without a limit, and then for the boot ROM
\* unless the chip is not to wait for the host.
efuse ==
  /\ At("efuse")
  /\ nm_read_reg(boot # "reset")
  /\ step' \in {"rom", "conf"}
  /\ UNCHANGED <<gu8Crc_off, chipid, gpfIsr, chipState>>

rom(timedOut) ==
  /\ At("rom")
  /\ IF timedOut THEN Fails /\ UNCHANGED failures
     ELSE Continues("conf") /\ nm_read_reg(boot \notin {"reset", "efuse"})
  /\ UNCHANGED <<gu8Crc_off, chipid, gpfIsr, chipState>>

\* chip_apply_conf() writes a register until it can be read back, without a limit.
chip_apply_conf ==
  /\ At("conf") /\ Continues("start")
  /\ spi_write_reg(TRUE)
  /\ UNCHANGED <<gu8Crc_off, chipid, gpfIsr, chipState>>

start ==
  /\ At("start") /\ Continues("firmware")
  /\ \E taken \in BOOLEAN :
       /\ spi_write_reg(taken)
       /\ boot' = IF taken /\ boot # "reset" THEN "started" ELSE boot
  /\ UNCHANGED <<gu8Crc_off, chipid, gpfIsr, noChecksum>>

wait_for_firmware_start(timedOut) ==
  /\ At("firmware")
  /\ IF timedOut THEN Fails /\ UNCHANGED failures
     ELSE Continues("interrupts") /\ nm_read_reg(boot = "up")
  /\ UNCHANGED <<gu8Crc_off, chipid, gpfIsr, chipState>>

enable_interrupts ==
  /\ At("interrupts")
  /\ \E ok \in BOOLEAN : spi_read_reg(ok) /\ step' = IF ok THEN "hif" ELSE "failed"
  /\ UNCHANGED <<gu8Crc_off, chipid, gpfIsr, chipState>>

\* From here on the events of the chip are handled, whatever follows.
hif_init ==
  /\ At("hif") /\ Continues("version")
  /\ gpfIsr' = TRUE
  /\ UNCHANGED <<gu8Crc_off, chipid, chipState, failures>>

\* A version that does not match counts as a success.
nm_get_firmware_full_info ==
  /\ At("version")
  /\ \E ok \in BOOLEAN : spi_read_reg(ok) /\ step' = IF ok THEN "succeeded" ELSE "failed"
  /\ UNCHANGED <<gu8Crc_off, chipid, gpfIsr, chipState>>

\* The driver goes on; the reset is left to the modules that know the rest of the chip.
driverStep(timedOut) ==
  \/ knownChip \/ nm_spi_init \/ readWithCrc \/ turnCrcOff
  \/ efuse \/ rom(timedOut) \/ chip_apply_conf \/ start
  \/ wait_for_firmware_start(timedOut) \/ enable_interrupts
  \/ hif_init \/ nm_get_firmware_full_info

\* The chip: its eFuses, its boot ROM, its firmware.
chipBoots ==
  /\ \/ boot = "reset" /\ boot' = "efuse"
     \/ boot = "efuse" /\ boot' = "rom"
     \/ boot = "started" /\ boot' = "up"
  /\ UNCHANGED <<driver, noChecksum, failures>>

\* A request reaches the firmware, or it fails.
Reaches(ok) == ok => boot = "up" /\ Understands
=============================================================================
