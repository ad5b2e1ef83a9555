------------------------------ MODULE MCPaging ------------------------------
(* A machine of 32-entry tables: 128-byte pages, 128 frames.                *)
EXTENDS Paging

\* The image ends at a page's start, inside it, or just before the next, so that
\* the bitmap and the directory fall before, on and after a boundary.
MCKernelEnd == {128, 200, 253, 256}

\* The bitmap's last three quarters are not cleared.
MCMemory == {{}, 32..127}
=============================================================================
