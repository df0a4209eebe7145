------------------------------ MODULE VgaDumps ------------------------------
(***************************************************************************)
(* The register dumps of X86/vga.c, byte for byte, in the order of the     *)
(* arrays: MISC and the five sequencer registers, the twenty-five CRTC     *)
(* registers, the nine of the graphics controller and the twenty-one of    *)
(* the attribute controller.                                               *)
(***************************************************************************)

g_40x25_text ==
    << 103, 3, 8, 3, 0, 2,
       45, 39, 40, 144, 43, 160, 191, 31, 0, 79, 13, 14, 0, 0, 0, 160, 156, 142, 143, 20, 31, 150, 185, 163, 255,
       0, 0, 0, 0, 0, 16, 14, 0, 255,
       0, 1, 2, 3, 4, 5, 20, 7, 56, 57, 58, 59, 60, 61, 62, 63, 12, 0, 15, 8, 0 >>

g_40x50_text ==
    << 103, 3, 8, 3, 0, 2,
       45, 39, 40, 144, 43, 160, 191, 31, 0, 71, 6, 7, 0, 0, 4, 96, 156, 142, 143, 20, 31, 150, 185, 163, 255,
       0, 0, 0, 0, 0, 16, 14, 0, 255,
       0, 1, 2, 3, 4, 5, 20, 7, 56, 57, 58, 59, 60, 61, 62, 63, 12, 0, 15, 8, 0 >>

g_80x25_text ==
    << 103, 3, 0, 3, 0, 2,
       95, 79, 80, 130, 85, 129, 191, 31, 0, 79, 13, 14, 0, 0, 0, 80, 156, 14, 143, 40, 31, 150, 185, 163, 255,
       0, 0, 0, 0, 0, 16, 14, 0, 255,
       0, 1, 2, 3, 4, 5, 20, 7, 56, 57, 58, 59, 60, 61, 62, 63, 12, 0, 15, 8, 0 >>

g_80x50_text ==
    << 103, 3, 0, 3, 0, 2,
       95, 79, 80, 130, 85, 129, 191, 31, 0, 71, 6, 7, 0, 0, 1, 64, 156, 142, 143, 40, 31, 150, 185, 163, 255,
       0, 0, 0, 0, 0, 16, 14, 0, 255,
       0, 1, 2, 3, 4, 5, 20, 7, 56, 57, 58, 59, 60, 61, 62, 63, 12, 0, 15, 8, 0 >>

g_90x30_text ==
    << 231, 3, 1, 3, 0, 2,
       107, 89, 90, 130, 96, 141, 11, 62, 0, 79, 13, 14, 0, 0, 0, 0, 234, 12, 223, 45, 16, 232, 5, 163, 255,
       0, 0, 0, 0, 0, 16, 14, 0, 255,
       0, 1, 2, 3, 4, 5, 20, 7, 56, 57, 58, 59, 60, 61, 62, 63, 12, 0, 15, 8, 0 >>

g_90x60_text ==
    << 231, 3, 1, 3, 0, 2,
       107, 89, 90, 130, 96, 141, 11, 62, 0, 71, 6, 7, 0, 0, 0, 0, 234, 12, 223, 45, 8, 232, 5, 163, 255,
       0, 0, 0, 0, 0, 16, 14, 0, 255,
       0, 1, 2, 3, 4, 5, 20, 7, 56, 57, 58, 59, 60, 61, 62, 63, 12, 0, 15, 8, 0 >>

g_640x480x2 ==
    << 227, 3, 1, 15, 0, 6,
       95, 79, 80, 130, 84, 128, 11, 62, 0, 64, 0, 0, 0, 0, 0, 0, 234, 12, 223, 40, 0, 231, 4, 227, 255,
       0, 0, 0, 0, 0, 0, 5, 15, 255,
       0, 1, 2, 3, 4, 5, 20, 7, 56, 57, 58, 59, 60, 61, 62, 63, 1, 0, 15, 0, 0 >>

g_320x200x4 ==
    << 99, 3, 9, 3, 0, 2,
       45, 39, 40, 144, 43, 128, 191, 31, 0, 65, 0, 0, 0, 0, 0, 0, 156, 14, 143, 20, 0, 150, 185, 163, 255,
       0, 0, 0, 0, 0, 48, 2, 0, 255,
       0, 19, 21, 23, 2, 4, 6, 7, 16, 17, 18, 19, 20, 21, 22, 23, 1, 0, 3, 0, 0 >>

g_640x480x16 ==
    << 227, 3, 1, 8, 0, 6,
       95, 79, 80, 130, 84, 128, 11, 62, 0, 64, 0, 0, 0, 0, 0, 0, 234, 12, 223, 40, 0, 231, 4, 227, 255,
       0, 0, 0, 0, 3, 0, 5, 15, 255,
       0, 1, 2, 3, 4, 5, 20, 7, 56, 57, 58, 59, 60, 61, 62, 63, 1, 0, 15, 0, 0 >>

g_720x480x16 ==
    << 231, 3, 1, 8, 0, 6,
       107, 89, 90, 130, 96, 141, 11, 62, 0, 64, 6, 7, 0, 0, 0, 0, 234, 12, 223, 45, 8, 232, 5, 227, 255,
       0, 0, 0, 0, 3, 0, 5, 15, 255,
       0, 1, 2, 3, 4, 5, 6, 7, 8, 9, 10, 11, 12, 13, 14, 15, 1, 0, 15, 0, 0 >>

g_320x200x256 ==
    << 99, 3, 1, 15, 0, 14,
       95, 79, 80, 130, 84, 128, 191, 31, 0, 65, 0, 0, 0, 0, 0, 0, 156, 14, 143, 40, 64, 150, 185, 163, 255,
       0, 0, 0, 0, 0, 64, 5, 15, 255,
       0, 1, 2, 3, 4, 5, 6, 7, 8, 9, 10, 11, 12, 13, 14, 15, 65, 0, 15, 0, 0 >>

g_320x200x256_modex ==
    << 99, 3, 1, 15, 0, 6,
       95, 79, 80, 130, 84, 128, 191, 31, 0, 65, 0, 0, 0, 0, 0, 0, 156, 14, 143, 40, 0, 150, 185, 227, 255,
       0, 0, 0, 0, 0, 64, 5, 15, 255,
       0, 1, 2, 3, 4, 5, 6, 7, 8, 9, 10, 11, 12, 13, 14, 15, 65, 0, 15, 0, 0 >>

Dumps ==
    {g_40x25_text, g_40x50_text, g_80x25_text, g_80x50_text,
     g_90x30_text, g_90x60_text, g_640x480x2, g_320x200x4,
     g_640x480x16, g_720x480x16, g_320x200x256, g_320x200x256_modex}

=============================================================================
