---- MODULE MCExecution ----
(* Machines at the edges of bytes, words, PC and the stack, with IX, IY   *)
(* and HL all different; memory and ports answer by their address.        *)
EXTENDS Execution

MCMemoryByte(address) == (address + 7 * (address \div 256)) % 256
MCPortByte(port) == (3 * port + 129 * (port \div 256)) % 256

Registers(b, c, d, e, h, l, a) ==
  [k \in RegisterIndex |-> <<b, c, d, e, h, l, 0, a>>[k + 1]]

Machine(registers, ix, iy, sp, pc, wz, r, fl, q) ==
  [reg |-> registers, alt |-> Registers(17, 34, 51, 68, 85, 102, 119), altf |-> {"N"},
   ix |-> ix, iy |-> iy, sp |-> sp, pc |-> pc, wz |-> wz, i |-> 63, r |-> r,
   f |-> fl, q |-> q, iff1 |-> FALSE, iff2 |-> "C" \in fl, im |-> 1, halted |-> FALSE,
   delay |-> 0, mem |-> [address \in {} |-> 0], bus |-> <<>>, t |-> 0, cmos |-> "Z" \in fl]

AllFlags == DOMAIN FlagNames

MCMachines ==
  {Machine(Registers(18, 52, 86, 120, 64, 32, 154), 16640, 49280, 32768, 256, 4660, 5, {}, {}),
   Machine(Registers(255, 255, 255, 255, 255, 255, 255), 127, 65535, 65535, 65533, 65535, 255,
           AllFlags, AllFlags),
   Machine(Registers(0, 0, 0, 0, 0, 0, 0), 65535, 0, 0, 65535, 0, 127, {"C", "X"}, {}),
   Machine(Registers(1, 0, 127, 255, 127, 255, 120), 32767, 32768, 1, 0, 2303, 254,
           {"Z", "PV", "H"}, {"Z", "PV", "H"}),
   Machine(Registers(0, 1, 128, 0, 15, 255, 9), 4095, 61440, 2, 33000, 511, 128,
           {"S", "N", "Y"}, {"S", "N", "Y"})}
=============================================================================
