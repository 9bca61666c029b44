-------------------------- MODULE MCMessagePreview --------------------------
\* MessagePreview for TLC: the partitions are model values of the cfg.
EXTENDS MessagePreview

====
