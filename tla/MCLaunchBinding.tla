--------------------------- MODULE MCLaunchBinding ---------------------------
EXTENDS LaunchBinding

CONSTANTS source, native, dataset, tokenizer, evaluation, converted, early, late

MCOrder == <<source, native, dataset, tokenizer, evaluation, converted>>
=============================================================================
