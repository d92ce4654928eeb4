------------------------------- MODULE NpuRegs -------------------------------
(***************************************************************************)
(* The registers of the NPU that the driver writes, as records of their    *)
(* fields: what a written word leaves in each field.  An encoder of        *)
(* rocket_registers.h shifts its argument into place and masks it, so a    *)
(* value that is too large loses its upper bits.                           *)
(***************************************************************************)
EXTENDS Integers

(* A field of w bits that starts at bit lo of the word v.                  *)
Field(v, lo, w) == (v \div 2^lo) % 2^w

OPERATION_ENABLE(v) == [OP_EN |-> Field(v, 0, 1)]

BASE_ADDRESS(v) ==
  [PC_SOURCE_ADDR |-> Field(v, 4, 28), RESERVED_0 |-> Field(v, 1, 3), PC_SEL |-> Field(v, 0, 1)]

REGISTER_AMOUNTS(v) == [PC_DATA_AMOUNT |-> Field(v, 0, 16), RESERVED_0 |-> 0]

NumberUnmasked(n) == n \* Mutant: the encoder does not mask the number
TaskNumber(n) == Field(n, 0, 12)

TASK_CON(clear, pp, number) ==
  [RESERVED_0 |-> 1, TASK_COUNT_CLEAR |-> Field(clear, 0, 1), TASK_PP_EN |-> Field(pp, 0, 1),
   TASK_NUMBER |-> TaskNumber(number)]

TASK_DMA_BASE_ADDR(v) == [DMA_BASE_ADDR |-> Field(v, 4, 28), RESERVED_0 |-> Field(v, 0, 4)]

(* S_POINTER of the CNA and of the CORE: EXECUTER (bit 16) is written by   *)
(* the hardware; the index of the core goes to bit 28, in RESERVED_0.      *)
CNA_S_POINTER(index) ==
  [POINTER_PP_EN |-> 1, EXECUTER_PP_EN |-> 1, POINTER_PP_MODE |-> 1,
   RESERVED_0 |-> Field(index * 2^11, 0, 15)]

CORE_S_POINTER(index) ==
  [POINTER_PP_EN |-> 1, EXECUTER_PP_EN |-> 1, POINTER_PP_MODE |-> 1,
   RESERVED_0 |-> Field(index * 2^11, 0, 15)]

(* Bit 0 of the DPU's S_POINTER selects the bank the registers are for.    *)
DPU_S_POINTER(bank) == [POINTER |-> Field(bank, 0, 1)]

LUT_ACCESS_CFG(table, addr) ==
  [LUT_ACCESS_TYPE |-> 1, LUT_TABLE_ID |-> Field(table, 0, 1), LUT_ADDR |-> Field(addr, 0, 10)]

LUT_ACCESS_DATA(v) == [LUT_ACCESS_DATA |-> Field(v, 0, 16)]

(* Bits of INTERRUPT_MASK, INTERRUPT_CLEAR and INTERRUPT_RAW_STATUS; the   *)
(* driver knows of a bit 16 that the header leaves in RESERVED_0.          *)
MASK_DPU == {8, 9}
RAW_STATUS_DPU == {8, 9}
RAW_STATUS_PPU == {10, 11}
CLEAR_ALL == 0 .. 16
=============================================================================
