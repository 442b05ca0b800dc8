--------------------------- MODULE MCAvivoScreen ---------------------------
(* AvivoScreen for TLC: two console modes, and a console that either sets  *)
(* a whole mode or only retimes the first CRTC.                            *)
EXTENDS AvivoScreen

MCConsoleWrites == {Groups, {"crtc1", "crtc1_vsync", "pll1", "vga_cntl"}}
=============================================================================
