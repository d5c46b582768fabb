---- MODULE MCImageResize ----
EXTENDS ImageResize
\* The model's images: one row or column, exact and inexact scales, up and down.
MCInSizes == 1 .. 5
MCOutSizes == 1 .. 3
====
