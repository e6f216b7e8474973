--------------------------- MODULE MCMemoryBridge ---------------------------
(* Small instances of MemoryBridge. *)
EXTENDS MemoryBridge

MCParam == [burst_cycle |-> 1, tCCD_L |-> 1, tCCD_S |-> 1, tRTRS |-> 0, tRTP |-> 1,
            tWTR_L |-> 1, tWTR_S |-> 1, tWR |-> 1, tRP |-> 1, tRRD_L |-> 1, tRRD_S |-> 1,
            tRAS |-> 2, tRCD |-> 1, tRFC |-> 2, tRFCb |-> 2, tREFI |-> 6, tREFIb |-> 6,
            tFAW |-> 1, tCKESR |-> 2, tXS |-> 3, RL |-> 1, WL |-> 1, sref_threshold |-> 3]

Place(b, r, c) == [bank |-> b, row |-> r, column |-> c]
SameBank == <<Place(0, 0, 0), Place(0, 1, 0), Place(1, 0, 0)>>
TwoBanks == <<Place(0, 0, 0), Place(1, 1, 0), Place(1, 0, 0)>>

DDR4 == [cmd_queue_size |-> 2, trans_queue_size |-> 2,
         queue_structure |-> "PER_BANK", refresh_policy |-> "RANK_LEVEL_STAGGERED",
         row_buf_policy |-> "OPEN_PAGE", unified_queue |-> FALSE,
         enable_hbm_dual_cmd |-> FALSE, enable_self_refresh |-> FALSE,
         mapping |-> SameBank, write_under_read |-> FALSE]
HMC == [DDR4 EXCEPT !.unified_queue = TRUE, !.row_buf_policy = "CLOSE_PAGE",
                    !.mapping = TwoBanks, !.write_under_read = TRUE,
                    !.queue_structure = "PER_RANK", !.trans_queue_size = 1]
HBM == [DDR4 EXCEPT !.enable_hbm_dual_cmd = TRUE, !.mapping = TwoBanks]
MCConfigs == {DDR4, HMC, HBM}

\* The per-bank refresh of configs/LPDDR5_16Gb_x8_6400.ini
LPDDR5 == {[DDR4 EXCEPT !.cmd_queue_size = 1, !.refresh_policy = "BANK_LEVEL_STAGGERED"]}
=============================================================================
