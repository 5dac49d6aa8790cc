------------------------------ MODULE MCQubeBytes ------------------------------
\* Instances of QubeBytes: a filler that is longer than a block.
EXTENDS QubeBytes

FillerBytes == <<1, 1, 1>>
================================================================================
